---- MODULE Spec2Model ----
(***************************************************************************)
(* Broker control plane of gopublic: the accept loop and handshake of      *)
(* Server.handleConnection, the hostname registry (TunnelRegistry) and the *)
(* per-user session registry (UserSessionRegistry).                        *)
(*                                                                         *)
(* A hostname is modelled as the sequence of the strings that the code     *)
(* joins with ".": <<name>> or <<name, rootDomain>>.                       *)
(***************************************************************************)
EXTENDS Integers, Sequences, FiniteSets, TLC

\* ------------------------------------------------------------------ bounds

\* Number of connections the listener accepts in one behaviour.
MaxConns == 2

\* Number of Register/Unregister calls made on the user-session registry.
MaxUserCalls == 3

\* Server.MaxConnections as set by NewServer.
MaxConnections == 1000

\* Server.MaxConnections as an operator sets it to see the limit at work.
SmallMaxConnections == 1

\* Number of public requests the ingress receives in one behaviour.
MaxRequests == 2

\* DAILY_BANDWIDTH_LIMIT_MB, the documented default.
DailyBandwidthLimitMB == 100

\* Number of t.Start() calls StartWithReconnect makes in one behaviour.
MaxStarts == 8

\* Per-stream workers of the agent and calls of Tunnel.Shutdown.
MaxStreams == 2

MaxShutdowns == 2

\* Responses the loopback service writes on one connection.
MaxReplies == 1

\* Channels made by Bus.Subscribe, publishing goroutines, and calls of the
\* bus's methods made in one behaviour.
MaxChans == 2

MaxPublishers == 2

MaxBusCalls == 5

\* Bus.bufferSize as set by NewBus, and as a caller of NewBusWithBuffer sets
\* it to see the buffer full.
DefaultBufferSize == 100

SmallBufferSize == 1

\* Client processes started on one machine.
MaxProcs == 3

\* Lines of a checksums.txt file.
MaxLines == 2

\* ed25519.PublicKeySize.
Ed25519PublicKeySize == 32

\* DefaultReconnectConfig, delays in seconds.
DefaultInitialDelay == 1
DefaultMaxDelay == 60
DefaultMultiplier == 2
DefaultMaxAttempts == 0

\* ------------------------------------------------------------ collaborators

Conns == 1..MaxConns

\* "No value": a nil pointer, a message not received or not sent.
Nil == [nil |-> TRUE]

\* Rows of the domains table (Name is unique), in insertion order.
DomainTable ==
    << [Name |-> "misty-river", UserID |-> 1],
       [Name |-> "silent-star", UserID |-> 1],
       [Name |-> "bold-eagle",  UserID |-> 2] >>

\* Rows of the tokens table.
TokenTable ==
    << [TokenString |-> "sk_live_12345", UserID |-> 1],
       [TokenString |-> "sk_live_67890", UserID |-> 2] >>

Users == {TokenTable[i].UserID : i \in 1..Len(TokenTable)}

Names == {DomainTable[i].Name : i \in 1..Len(DomainTable)}

\* Tokens an agent may present: the stored ones and one that is not stored.
Tokens == {TokenTable[i].TokenString : i \in 1..Len(TokenTable)} \cup {"sk_live_bogus"}

\* Values of DOMAIN_NAME the broker may be started with.
RootDomains == {"", "example.com"}

\* The requested_domains lists an agent may send: the empty list (all of the
\* user's domains), a single name, and a list of two names with two owners.
RequestLists ==
    { <<>>, <<"bold-eagle">>, <<"silent-star", "bold-eagle">> }

\* Error codes of the protocol ("" is ErrorCodeNone).
ErrorCodeNone == ""
ErrorCodeInvalidToken == "invalid_token"
ErrorCodeAlreadyConnected == "already_connected"
ErrorCodeNoDomains == "no_domains"

\* --------------------------------------------------------------- storage

\* storage.ValidateToken: the user ID of the token row; 0 (no user, IDs start
\* at 1) stands for the error returned when no row matches.
ValidateToken(tokenStr) ==
    IF \E i \in 1..Len(TokenTable) : TokenTable[i].TokenString = tokenStr
    THEN (CHOOSE r \in {TokenTable[i] : i \in 1..Len(TokenTable)} :
              r.TokenString = tokenStr).UserID
    ELSE 0

\* A buggy ownership check that forgets the user_id condition.
ValidateDomainOwnership_AnyUser(domainName, userID) ==
    \E i \in 1..Len(DomainTable) : DomainTable[i].Name = domainName

\* storage.ValidateDomainOwnership: a row with this name and this user exists.
ValidateDomainOwnership(domainName, userID) ==
    \E i \in 1..Len(DomainTable) :
        DomainTable[i].Name = domainName /\ DomainTable[i].UserID = userID

RECURSIVE SelectNames(_, _)
SelectNames(rows, userID) ==
    IF rows = <<>> THEN <<>>
    ELSE IF Head(rows).UserID = userID
         THEN <<Head(rows).Name>> \o SelectNames(Tail(rows), userID)
         ELSE SelectNames(Tail(rows), userID)

\* storage.GetUserDomains followed by the loop that appends each d.Name.
GetUserDomains(userID) == SelectNames(DomainTable, userID)

\* ------------------------------------------------------------ the registry

\* name + "." + rootDomain when a root domain is set, else name alone.
RegName(name, root) == IF root # "" THEN <<name, root>> ELSE <<name>>

\* A map assignment m[k] = v on a map held as a function.
MapPut(m, k, v) == [x \in DOMAIN m \cup {k} |-> IF x = k THEN v ELSE m[x]]

\* delete(m, k).
MapDelete(m, k) == [x \in DOMAIN m \ {k} |-> m[x]]

\* TunnelRegistry.Register: sessions[hostname] = &TunnelEntry{...}.
TunnelRegister(sessions, hostname, session, userID, bandwidthExempt) ==
    MapPut(sessions, hostname,
           [Session |-> session, UserID |-> userID, BandwidthExempt |-> bandwidthExempt])

\* An Unregister that leaves the map as it is.
TunnelUnregister_Keeps(sessions, hostname) == sessions

\* TunnelRegistry.Unregister: delete(sessions, hostname).
TunnelUnregister(sessions, hostname) == MapDelete(sessions, hostname)

\* TunnelRegistry.GetEntry: the entry, or Nil when the hostname is absent.
GetEntry(sessions, hostname) ==
    IF hostname \in DOMAIN sessions THEN sessions[hostname] ELSE Nil

\* TunnelRegistry.GetSession: the entry's session; 0 is the nil session
\* returned with ok = false (sessions are numbered from 1).
GetSession(sessions, hostname) ==
    IF hostname \in DOMAIN sessions THEN sessions[hostname].Session ELSE 0

\* ------------------------------------------------------------------ state

VARIABLES
    rootDomain,     \* os.Getenv("DOMAIN_NAME")
    registry,       \* TunnelRegistry.sessions: hostname -> TunnelEntry
    maxConnections, \* Server.MaxConnections (0 = unlimited: no semaphore)
    connSem,        \* occupied slots of Server.connSem
    pc,             \* where the handler of each connection stands
    closed,         \* the session's CloseChan has fired
    authReq,        \* the decoded AuthRequest, or Nil
    user,           \* user.ID returned by ValidateToken, or 0
    requested,      \* tunnelReq.RequestedDomains still to be processed
    ownerCheck,     \* isOwner, err of the last ValidateDomainOwnership call, or Nil
    boundDomains,   \* boundDomains of the handler
    cleaned,        \* how many of boundDomains the close watcher has unregistered
    resp,           \* the InitResponse the handler encoded on the stream, or Nil
    userSessions,   \* UserSessionRegistry.sessions as a set of <<userID, UserSession>>
    lastCall,       \* the last call made on the user-session registry
    userCalls,      \* number of calls made on the user-session registry
    ipc,            \* where Ingress.handleRequest stands
    reqHost,        \* c.Request.Host of the request being handled
    host,           \* host, the port stripped
    reqSession,     \* the session GetSession returned, or 0
    stream,         \* the stream of session.Open(): "none", "open", "closed"
    written,        \* c.Request.Write(stream) wrote the request
    status,         \* HTTP status of the response, 0 before it is set
    body,           \* body of the response
    requests,       \* number of requests received
    bytesUsed,      \* UserBandwidth.BytesUsed of today's row of each user
    rpc,            \* where StartWithReconnect stands
    cfg,            \* the ReconnectConfig in use
    attempt,        \* attempt
    delay,          \* delay, in seconds
    startErr,       \* err of the last t.Start() call, or Nil
    retErr,         \* the error StartWithReconnect returned, or Nil
    waits,          \* the delays waited since the last successful connect
    starts,         \* number of t.Start() calls made
    ctxDone,        \* ctx has been cancelled
    shutdownCalled, \* the monitor goroutine has called t.Shutdown
    apc,            \* where Tunnel.handleSession stands
    agentToken,     \* Tunnel.Token
    handshake,      \* the agent's handshake stream: "none", "open", "closed"
    toBroker,       \* messages written by the agent, not yet decoded by the broker
    toAgent,        \* messages written by the broker, not yet decoded by the agent
    streamLog,      \* the types of the messages written on the handshake stream, in order
    agentResp,      \* the InitResponse the agent decoded, or Nil
    agentErr,       \* the error handleSession returned, or Nil
    serverAddr,     \* Tunnel.ServerAddr: <<host, port>>, or <<host>> without a port
    transport,      \* how the connection to the broker was dialled: "none", "tls", "plain"
    activeConns,    \* Tunnel.activeConns: the set of tracked connections
    connClosed,     \* the connections that have been closed
    mu,             \* the holder of Tunnel.mu: {} when free
    wpc,            \* where each per-stream worker stands
    snap,           \* the map as each worker read it under the mutex
    spc,            \* where Tunnel.Shutdown stands
    tracked,        \* the connections tracked when Shutdown was called
    toClose,        \* the connections Shutdown has still to close
    shutdownRet,    \* what the last Shutdown returned, or Nil
    shutdowns,      \* number of Shutdown calls made
    tsession,       \* Tunnel.session: "nil", "open", "closed"
    ppc,            \* where Tunnel.proxyStream stands
    toSend,         \* what the broker has still to write on the stream
    sent,           \* what the broker has written on the stream
    remoteIn,       \* written by the broker, not yet read from the stream
    remoteEOF,      \* the broker has closed its end of the stream
    reader,         \* what the bufio.Reader has taken from the stream
    localIn,        \* what the loopback service has received
    localOut,       \* written by the loopback service, not yet read
    localEOF,       \* the loopback service has closed the connection
    remoteOut,      \* what the worker has written on the stream
    acopy,          \* the goroutine io.Copy(local, remote): "none", "running", "done"
    remoteClosed,   \* remote.Close() has run
    localClosed,    \* local.Close() has run
    dialFailed,     \* net.Dial of the loopback service failed
    replies,        \* number of responses the loopback service wrote
    srvCtxDone,     \* Server.ctx is cancelled
    startRet,       \* what Server.Start returned, or Nil while the loop runs
    sdpc,           \* where Server.Shutdown stands: "idle", "cancelled", "waiting", "returned"
    srvShutdownRet, \* what Server.Shutdown returned, or Nil
    lpc,            \* where Server.Start's loop stands: "check", "accept", "sem", "done"
    accepted,       \* the connection Accept returned that waits for a slot, or 0
    acceptedLate,   \* that connection was accepted after the context was cancelled
    bufferSize,     \* Bus.bufferSize
    subscribers,    \* Bus.subscribers: the list of subscriber channels
    busClosed,      \* Bus.closed
    chMade,         \* the channels Subscribe has made
    chClosed,       \* the channels that have been closed
    chBuf,          \* the events queued in each channel
    received,       \* the events each subscriber has received, in order
    rlock,          \* the publishers that hold the read lock of Bus.mu
    bpc,            \* where each publisher's Publish call stands
    psubs,          \* the slice each Publish call ranges over
    pidx,           \* the position of each Publish call in its loop
    pubCount,       \* number of Publish calls each publisher has made
    busFault,       \* the run-time panics of channel operations so far
    unsubCalls,     \* number of Unsubscribe calls made for each channel
    lateCalls,      \* the methods called on the bus after it was closed
    closeCalls,     \* number of Close calls made
    busCalls,       \* number of calls of the bus's methods made
    lockFile,       \* the PID recorded in ~/.gopublic.lock, or NoFile
    lkpc,           \* where each client process stands with the lock file
    lkInfo,         \* the PID each AcquireLock call read from the lock file
    upc,            \* where PerformUpdate stands
    PublicKeyBase64, \* the public key the client was built with
    goos,           \* runtime.GOOS
    srvChecksums,   \* checksums.txt as the release serves it
    srvSignature,   \* checksums.sig as the release serves it
    srvBinary,      \* the asset as the release serves it
    pubKey,         \* PerformUpdate's decoded public key
    checksums,      \* PerformUpdate's downloaded checksums.txt
    signature,      \* PerformUpdate's downloaded checksums.sig
    expectedHash,   \* the hash parseChecksum returned
    binaryData,     \* PerformUpdate's downloaded binary
    executable,     \* the content of the installed executable
    staged,         \* the content of the .new file next to it, or NoData
    updRet,         \* what PerformUpdate returned, or Nil
    dlFailed        \* a downloadFile call has returned an error

brokerVars == <<rootDomain, registry, maxConnections, connSem, pc, closed, authReq, user,
                requested, ownerCheck, boundDomains, cleaned, resp>>

userVars == <<userSessions, lastCall, userCalls>>

ingressVars == <<ipc, reqHost, host, reqSession, stream, written, status, body,
                 requests, bytesUsed>>

reconnectVars == <<rpc, cfg, attempt, delay, startErr, retErr, waits, starts, ctxDone, shutdownCalled>>

agentVars == <<apc, agentToken, handshake, toBroker, toAgent, streamLog, agentResp, agentErr,
               serverAddr, transport>>

proxyVars == <<ppc, toSend, sent, remoteIn, remoteEOF, reader, localIn, localOut, localEOF,
               remoteOut, acopy, remoteClosed, localClosed, dialFailed, replies>>

updateVars == <<upc, PublicKeyBase64, goos, srvChecksums, srvSignature, srvBinary, pubKey,
                checksums, signature, expectedHash, binaryData, executable, staged, updRet,
                dlFailed>>

lockVars == <<lockFile, lkpc, lkInfo>>

busVars == <<bufferSize, subscribers, busClosed, chMade, chClosed, chBuf, received, rlock, bpc,
             psubs, pidx, pubCount, busFault, unsubCalls, lateCalls, closeCalls, busCalls>>

serverVars == <<srvCtxDone, startRet, sdpc, srvShutdownRet, lpc, accepted, acceptedLate>>

streamVars == <<activeConns, connClosed, mu, wpc, snap, spc, tracked, toClose, shutdownRet,
                shutdowns, tsession>>

\* What the broker, the user-session registry, the ingress, the agent's
\* reconnect loop and the agent's stream set leave alone.
exceptBroker == <<userVars, ingressVars, reconnectVars, agentVars, streamVars, proxyVars, serverVars, busVars, lockVars, updateVars>>

exceptUsers == <<brokerVars, ingressVars, reconnectVars, agentVars, streamVars, proxyVars, serverVars, busVars, lockVars, updateVars>>

exceptIngress == <<brokerVars, userVars, reconnectVars, agentVars, streamVars, proxyVars, serverVars, busVars, lockVars, updateVars>>

exceptReconnect == <<brokerVars, userVars, ingressVars, agentVars, streamVars, proxyVars, serverVars, busVars, lockVars, updateVars>>

exceptStreams == <<brokerVars, userVars, ingressVars, reconnectVars, agentVars, proxyVars, serverVars, busVars, lockVars, updateVars>>

exceptProxy == <<brokerVars, userVars, ingressVars, reconnectVars, agentVars, streamVars, serverVars, busVars, lockVars, updateVars>>

exceptServer == <<userVars, ingressVars, reconnectVars, agentVars, streamVars, proxyVars, busVars, lockVars, updateVars>>

exceptBus == <<brokerVars, userVars, ingressVars, reconnectVars, agentVars, streamVars, proxyVars,
               serverVars, lockVars, updateVars>>

exceptLock == <<brokerVars, userVars, ingressVars, reconnectVars, agentVars, streamVars, proxyVars,
                serverVars, busVars, updateVars>>

exceptUpdate == <<brokerVars, userVars, ingressVars, reconnectVars, agentVars, streamVars, proxyVars,
                  serverVars, busVars, lockVars>>

vars == <<brokerVars, userVars, ingressVars, reconnectVars, agentVars, streamVars, proxyVars, serverVars, busVars, lockVars, updateVars>>

\* The server after construction, with Server.MaxConnections = limit.
InitServer(limit) ==
    /\ rootDomain \in RootDomains
    /\ registry = <<>>
    /\ maxConnections = limit
    /\ connSem = 0
    /\ pc = [c \in Conns |-> "listening"]
    /\ closed = [c \in Conns |-> FALSE]
    /\ authReq = [c \in Conns |-> Nil]
    /\ user = [c \in Conns |-> 0]
    /\ requested = [c \in Conns |-> <<>>]
    /\ ownerCheck = [c \in Conns |-> Nil]
    /\ boundDomains = [c \in Conns |-> <<>>]
    /\ cleaned = [c \in Conns |-> 0]
    /\ resp = [c \in Conns |-> Nil]

InitBroker == InitServer(MaxConnections)

InitUsers ==
    /\ userSessions = {}
    /\ lastCall = Nil
    /\ userCalls = 0

\* The ingress before any request, with an empty bandwidth table.
InitIngress ==
    /\ ipc = "serve"
    /\ reqHost = <<>>
    /\ host = <<>>
    /\ reqSession = 0
    /\ stream = "none"
    /\ written = FALSE
    /\ status = 0
    /\ body = <<>>
    /\ requests = 0

\* DefaultReconnectConfig().
DefaultReconnectConfig ==
    [InitialDelay |-> DefaultInitialDelay, MaxDelay |-> DefaultMaxDelay,
     Multiplier |-> DefaultMultiplier, MaxAttempts |-> DefaultMaxAttempts]

\* StartWithReconnect entered with configuration c (nil is replaced by the
\* default before): attempt := 0, delay := cfg.InitialDelay.
InitReconnect(c) ==
    /\ rpc = "loop"
    /\ cfg = c
    /\ attempt = 0
    /\ delay = c.InitialDelay
    /\ startErr = Nil
    /\ retErr = Nil
    /\ waits = <<>>
    /\ starts = 0
    /\ ctxDone = FALSE
    /\ shutdownCalled = FALSE

\* A tunnel NewTunnel built with server address addr and token t, before
\* Start.
InitTunnel(addr, t) ==
    /\ apc = "dial"
    /\ serverAddr = addr
    /\ transport = "none"
    /\ agentToken = t
    /\ handshake = "none"
    /\ toBroker = <<>>
    /\ toAgent = <<>>
    /\ streamLog = <<>>
    /\ agentResp = Nil
    /\ agentErr = Nil

\* The per-stream workers of the agent, one for each accepted connection.
Workers == 1..MaxStreams

\* The holder of Tunnel.mu within Shutdown.
ShutdownHolder == {0}

\* No error.
NoError == [kind |-> "nil", msg |-> <<>>]

\* A tunnel after NewTunnel (session s = "nil") or after a handshake
\* (s = "open"): activeConns is initialised and empty.
InitStreams(s) ==
    /\ activeConns = {}
    /\ connClosed = {}
    /\ mu = {}
    /\ wpc = [w \in Workers |-> "idle"]
    /\ snap = [w \in Workers |-> {}]
    /\ spc = "idle"
    /\ tracked = {}
    /\ toClose = {}
    /\ shutdownRet = Nil
    /\ shutdowns = 0
    /\ tsession = s

\* What the broker writes on a stream, in the pieces a read of the stream
\* returns: a well-formed request, and byte strings that are no HTTP request.
RequestLine == "GET / HTTP/1.1"

Payloads ==
    { <<RequestLine>>, <<"garbage">>, <<"garbage", "more">>, <<>> }

\* The response of the loopback service.
ServiceResponse == "HTTP/1.1 200 OK"

\* http.ReadRequest accepts a piece that starts a request.
IsRequest(piece) == piece = RequestLine

\* A stream accepted from the session, the broker about to write payload p
\* on it; proxyStream has just been started for it.
InitProxy(p) ==
    /\ ppc = "dial"
    /\ toSend = p
    /\ sent = <<>>
    /\ remoteIn = <<>>
    /\ remoteEOF = FALSE
    /\ reader = <<>>
    /\ localIn = <<>>
    /\ localOut = <<>>
    /\ localEOF = FALSE
    /\ remoteOut = <<>>
    /\ acopy = "none"
    /\ remoteClosed = FALSE
    /\ localClosed = FALSE
    /\ dialFailed = FALSE
    /\ replies = 0

\* The channels Subscribe can make and the goroutines that publish.
Chans == 1..MaxChans

Publishers == 1..MaxPublishers

\* No channel has been made, no call is in progress.
InitBus(size) ==
    /\ bufferSize = size
    /\ subscribers = <<>>
    /\ busClosed = FALSE
    /\ chMade = {}
    /\ chClosed = {}
    /\ chBuf = [ch \in Chans |-> <<>>]
    /\ received = [ch \in Chans |-> <<>>]
    /\ rlock = {}
    /\ bpc = [p \in Publishers |-> "idle"]
    /\ psubs = [p \in Publishers |-> <<>>]
    /\ pidx = [p \in Publishers |-> 0]
    /\ pubCount = [p \in Publishers |-> 0]
    /\ busFault = {}
    /\ unsubCalls = [ch \in Chans |-> 0]
    /\ lateCalls = {}
    /\ closeCalls = 0
    /\ busCalls = 0

\* The client processes, by PID, and the lock file that does not exist.
Procs == 1..MaxProcs

NoFile == 0

\* No client process has started and there is no lock file.
InitLock ==
    /\ lockFile = NoFile
    /\ lkpc = [p \in Procs |-> "off"]
    /\ lkInfo = [p \in Procs |-> NoFile]

\* The values PublicKeyBase64 is built with: none, a string that is not
\* base64, the encoding of a short byte string, and the encodings of the
\* release key and of another key.
PublicKeys == {"", "not base64!", "c2hvcnQ=", "base64 of the release key", "base64 of another key"}

\* base64.StdEncoding.DecodeString on those values: an error, or the bytes
\* by their length and, for a key, the signer it belongs to.
DecodeString(s) ==
    CASE s = "base64 of the release key" ->
             [err |-> FALSE, size |-> Ed25519PublicKeySize, owner |-> "release"]
      [] s = "base64 of another key" ->
             [err |-> FALSE, size |-> Ed25519PublicKeySize, owner |-> "other"]
      [] s = "c2hvcnQ=" -> [err |-> FALSE, size |-> 5, owner |-> "none"]
      [] s = "" -> [err |-> FALSE, size |-> 0, owner |-> "none"]
      [] OTHER -> [err |-> TRUE, size |-> 0, owner |-> "none"]

\* runtime.GOOS and the asset getAssetName names for it.
Platforms == {"linux", "windows"}

getAssetName(os) == IF os = "windows" THEN "gopublic-windows-amd64.exe" ELSE "gopublic-linux-amd64"

\* The executable that is installed, and the binaries a release can serve.
OldBinary == "installed binary"

\* No bytes: nothing downloaded, no .new file.
NoData == ""

Binaries == {"release binary", "tampered binary"}

\* hex.EncodeToString(sha256.Sum256(data)): distinct data, distinct digest.
Sha256Hex(data) ==
    CASE data = "release binary" -> "3a7bd3e2"
      [] data = "tampered binary" -> "9f86d081"
      [] OTHER -> "e3b0c442"

\* The lines checksums.txt can hold, each as strings.Fields splits it, and
\* the files made of them.
ChecksumLines ==
    {<<Sha256Hex(b), getAssetName(g)>> : b \in Binaries, g \in Platforms}
        \cup {<<getAssetName(g)>> : g \in Platforms}

ChecksumFiles == UNION {[1..n -> ChecksumLines] : n \in 0..MaxLines}

\* checksums.sig: bytes that are no signature, or the signature of a signer
\* over the file served or over another message.
NoSignature == [signer |-> "none", msg |-> <<>>]

Signatures(f) ==
    {NoSignature} \cup {[signer |-> k, msg |-> m] : k \in {"release", "other"},
                                                     m \in {f, <<<<"another message">>>>}}

\* ed25519.Verify(publicKey, message, sig).
Ed25519Verify(publicKey, message, sig) ==
    /\ sig.signer # "none"
    /\ sig.signer = publicKey.owner
    /\ sig.msg = message

\* PerformUpdate has not started; the release serves the given files.
InitUpdater(k, g, f, s, b) ==
    /\ upc = "key"
    /\ PublicKeyBase64 = k
    /\ goos = g
    /\ srvChecksums = f
    /\ srvSignature = s
    /\ srvBinary = b
    /\ pubKey = DecodeString("")
    /\ checksums = <<>>
    /\ signature = NoSignature
    /\ expectedHash = ""
    /\ binaryData = NoData
    /\ executable = OldBinary
    /\ staged = NoData
    /\ updRet = Nil
    /\ dlFailed = FALSE

\* The control plane serving: Start's loop runs and Shutdown has not been
\* called.
InitControlPlane ==
    /\ srvCtxDone = FALSE
    /\ startRet = Nil
    /\ sdpc = "idle"
    /\ srvShutdownRet = Nil
    /\ lpc = "check"
    /\ accepted = 0
    /\ acceptedLate = FALSE

Init ==
    /\ InitBroker
    /\ InitUsers
    /\ InitIngress
    /\ bytesUsed = [u \in Users |-> 0]
    /\ InitReconnect(DefaultReconnectConfig)
    /\ InitTunnel(<<"localhost", "4443">>, "sk_live_12345")
    /\ InitStreams("nil")
    /\ InitProxy(<<>>)
    /\ InitControlPlane
    /\ InitBus(DefaultBufferSize)
    /\ InitLock
    /\ InitUpdater("", "linux", <<>>, NoSignature, "release binary")

\* ----------------------------------------------------- Server.Start (accept)

\* The accept loop takes a connection, acquires a semaphore slot and starts
\* the handler goroutine.
Accept(c) ==
    /\ pc[c] = "listening"
    /\ maxConnections > 0 => connSem < maxConnections
    /\ connSem' = IF maxConnections > 0 THEN connSem + 1 ELSE connSem
    /\ pc' = [pc EXCEPT ![c] = "yamux"]
    /\ UNCHANGED <<rootDomain, maxConnections, registry, closed, authReq, user, requested,
                   ownerCheck, boundDomains, cleaned, resp>>

\* A return of the handler that leaves the semaphore slot occupied.
Return_KeepsSlot(c, at) ==
    /\ pc' = [pc EXCEPT ![c] = at]
    /\ connSem' = connSem
    /\ authReq' = [authReq EXCEPT ![c] = Nil]
    /\ requested' = [requested EXCEPT ![c] = <<>>]
    /\ ownerCheck' = [ownerCheck EXCEPT ![c] = Nil]
    /\ user' = [user EXCEPT ![c] = IF at = "watching" THEN @ ELSE 0]

\* The handler returns: the deferred function releases the semaphore slot and
\* the handler's locals go out of scope (the close watcher, when one was
\* started, keeps user and boundDomains).
Return(c, at) ==
    /\ pc' = [pc EXCEPT ![c] = at]
    /\ connSem' = IF maxConnections > 0 THEN connSem - 1 ELSE connSem
    /\ authReq' = [authReq EXCEPT ![c] = Nil]
    /\ requested' = [requested EXCEPT ![c] = <<>>]
    /\ ownerCheck' = [ownerCheck EXCEPT ![c] = Nil]
    /\ user' = [user EXCEPT ![c] = IF at = "watching" THEN @ ELSE 0]

\* sendError: InitResponse{Success: false, Error: msg}.
sendError(msg) ==
    [Success |-> FALSE, Error |-> msg, ErrorCode |-> ErrorCodeNone, BoundDomains |-> <<>>]

\* ------------------------------------------------- Server.handleConnection

\* yamux.Server(conn, nil): on error the connection is closed and the
\* handler returns; no session exists.
YamuxServer(c) ==
    /\ pc[c] = "yamux"
    /\ \/ /\ pc' = [pc EXCEPT ![c] = "acceptStream"]
          /\ UNCHANGED <<connSem, authReq, requested, ownerCheck, user>>
       \/ Return(c, "returned")
    /\ UNCHANGED <<rootDomain, maxConnections, registry, closed, boundDomains, cleaned, resp>>

\* session.Accept() of the handshake stream; on error (the agent went away
\* or opened no stream) session.Close() and return.
AcceptStream(c) ==
    /\ pc[c] = "acceptStream"
    /\ \/ /\ pc' = [pc EXCEPT ![c] = "decodeAuth"]
          /\ UNCHANGED <<connSem, closed, authReq, requested, ownerCheck, user>>
       \/ /\ closed' = [closed EXCEPT ![c] = TRUE]
          /\ Return(c, "returned")
    /\ UNCHANGED <<rootDomain, maxConnections, registry, boundDomains, cleaned, resp>>

\* Decode of the AuthRequest from the handshake stream.
DecodeAuth(c) ==
    /\ pc[c] = "decodeAuth"
    /\ \/ \* decode error (bad JSON, the agent went away): session.Close(), return
          /\ closed' = [closed EXCEPT ![c] = TRUE]
          /\ Return(c, "returned")
       \/ \E token \in Tokens, force \in BOOLEAN :
            /\ authReq' = [authReq EXCEPT ![c] = [Token |-> token, Force |-> force]]
            /\ pc' = [pc EXCEPT ![c] = "validateToken"]
            /\ UNCHANGED <<connSem, closed, requested, ownerCheck, user>>
    /\ UNCHANGED <<rootDomain, maxConnections, registry, boundDomains, cleaned, resp>>

\* storage.ValidateToken(authReq.Token): on error sendError("Invalid Token"),
\* session.Close() and return; otherwise the handler goes on with the user.
Auth(c) ==
    /\ pc[c] = "validateToken"
    /\ IF ValidateToken(authReq[c].Token) = 0
       THEN /\ resp' = [resp EXCEPT ![c] = sendError("Invalid Token")]
            /\ closed' = [closed EXCEPT ![c] = TRUE]
            /\ Return(c, "returned")
       ELSE /\ user' = [user EXCEPT ![c] = ValidateToken(authReq[c].Token)]
            /\ pc' = [pc EXCEPT ![c] = "decodeTunnel"]
            /\ UNCHANGED <<connSem, closed, resp, authReq, requested, ownerCheck>>
    /\ UNCHANGED <<rootDomain, maxConnections, registry, boundDomains, cleaned>>

\* A substitution that takes only the first of the user's domains.
TunnelDecoded_FirstOnly(c, list) ==
    IF Len(list) > 0
    THEN /\ requested' = [requested EXCEPT ![c] = list]
         /\ pc' = [pc EXCEPT ![c] = "bind"]
         /\ UNCHANGED <<connSem, closed, resp, authReq, ownerCheck, user>>
    ELSE /\ requested' = [requested EXCEPT ![c] = SubSeq(GetUserDomains(user[c]), 1, 1)]
         /\ pc' = [pc EXCEPT ![c] = "bind"]
         /\ UNCHANGED <<connSem, closed, resp, authReq, ownerCheck, user>>

\* The TunnelRequest was decoded with RequestedDomains = list: an empty list
\* is replaced by the names of all of the user's domains
\* (storage.GetUserDomains, which may fail).
TunnelDecoded(c, list) ==
    IF Len(list) > 0
    THEN /\ requested' = [requested EXCEPT ![c] = list]
         /\ pc' = [pc EXCEPT ![c] = "bind"]
         /\ UNCHANGED <<connSem, closed, resp, authReq, ownerCheck, user>>
    ELSE \/ \* GetUserDomains fails
            /\ resp' = [resp EXCEPT ![c] = sendError("Failed to retrieve user domains")]
            /\ closed' = [closed EXCEPT ![c] = TRUE]
            /\ Return(c, "returned")
         \/ \* GetUserDomains succeeds
            /\ requested' = [requested EXCEPT ![c] = GetUserDomains(user[c])]
            /\ pc' = [pc EXCEPT ![c] = "bind"]
            /\ UNCHANGED <<connSem, closed, resp, authReq, ownerCheck, user>>

\* The decode of the TunnelRequest fails: session.Close(), return.
TunnelDecodeError(c) ==
    /\ closed' = [closed EXCEPT ![c] = TRUE]
    /\ Return(c, "returned")
    /\ UNCHANGED resp

\* Decode of the TunnelRequest and what the handler does with the list.
Tunnel(c) ==
    /\ pc[c] = "decodeTunnel"
    /\ \/ TunnelDecodeError(c)
       \/ \E list \in RequestLists : TunnelDecoded(c, list)
    /\ UNCHANGED <<rootDomain, maxConnections, registry, boundDomains, cleaned>>

\* One iteration of the loop over tunnelReq.RequestedDomains: the ownership
\* check (which may fail with an error) and, for an owned name, one
\* Registry.Register call and the append to boundDomains.  The handler was
\* written against Register(hostname, session); the entry's UserID is the
\* authenticated user and BandwidthExempt is false.
Bind(c) ==
    /\ pc[c] = "bind"
    /\ requested[c] # <<>>
    /\ LET name == Head(requested[c])
           regName == RegName(name, rootDomain)
       IN  \E dbErr \in BOOLEAN :
             LET isOwner == ~dbErr /\ ValidateDomainOwnership(name, user[c])
             IN  /\ ownerCheck' = [ownerCheck EXCEPT ![c] =
                                      [isOwner |-> isOwner, err |-> dbErr]]
                 /\ IF ~dbErr /\ isOwner
                    THEN /\ registry' = TunnelRegister(registry, regName, c, user[c], FALSE)
                         /\ boundDomains' = [boundDomains EXCEPT ![c] = Append(@, regName)]
                    ELSE UNCHANGED <<registry, boundDomains>>
                 /\ requested' = [requested EXCEPT ![c] = Tail(@)]
    /\ UNCHANGED <<rootDomain, maxConnections, connSem, pc, closed, authReq, user, cleaned, resp>>

\* After the loop: no bound domain is an error; otherwise the success
\* response is encoded, the close watcher is started and the handler returns.
Respond(c) ==
    /\ pc[c] = "bind"
    /\ requested[c] = <<>>
    /\ IF Len(boundDomains[c]) = 0
       THEN /\ resp' = [resp EXCEPT ![c] =
                           sendError("No valid domains requested or authorized")]
            /\ closed' = [closed EXCEPT ![c] = TRUE]
            /\ Return(c, "returned")
       ELSE /\ resp' = [resp EXCEPT ![c] =
                           [Success |-> TRUE, Error |-> "", ErrorCode |-> ErrorCodeNone,
                            BoundDomains |-> boundDomains[c]]]
            /\ Return(c, "watching")
            /\ UNCHANGED closed
    /\ UNCHANGED <<rootDomain, maxConnections, registry, boundDomains, cleaned>>

\* A close watcher that leaves its loop after the first bound domain.
Cleanup_FirstOnly(c) ==
    /\ pc[c] = "watching"
    /\ closed[c]
    /\ cleaned[c] < Len(boundDomains[c])
    /\ registry' = TunnelUnregister(registry, boundDomains[c][cleaned[c] + 1])
    /\ pc' = [pc EXCEPT ![c] = "ended"]
    /\ cleaned' = [cleaned EXCEPT ![c] = 0]
    /\ boundDomains' = [boundDomains EXCEPT ![c] = <<>>]
    /\ user' = [user EXCEPT ![c] = 0]
    /\ UNCHANGED <<rootDomain, maxConnections, connSem, closed, authReq, requested, ownerCheck, resp>>

\* The close watcher, woken by CloseChan, unregisters the next bound domain;
\* after the last one the goroutine ends.
Cleanup(c) ==
    /\ pc[c] = "watching"
    /\ closed[c]
    /\ cleaned[c] < Len(boundDomains[c])
    /\ registry' = TunnelUnregister(registry, boundDomains[c][cleaned[c] + 1])
    /\ IF cleaned[c] + 1 = Len(boundDomains[c])
       THEN /\ pc' = [pc EXCEPT ![c] = "ended"]
            /\ cleaned' = [cleaned EXCEPT ![c] = 0]
            /\ boundDomains' = [boundDomains EXCEPT ![c] = <<>>]
            /\ user' = [user EXCEPT ![c] = 0]
       ELSE /\ cleaned' = [cleaned EXCEPT ![c] = @ + 1]
            /\ UNCHANGED <<pc, boundDomains, user>>
    /\ UNCHANGED <<rootDomain, maxConnections, connSem, closed, authReq, requested, ownerCheck, resp>>

\* The session ends from outside the handler: the agent disconnects or the
\* keepalive fails, and the session's CloseChan fires.  While the handler
\* reads the handshake stream the same event is the read's error branch.
SessionClose(c) ==
    /\ pc[c] \in {"bind", "watching"}
    /\ ~closed[c]
    /\ closed' = [closed EXCEPT ![c] = TRUE]
    /\ UNCHANGED <<rootDomain, maxConnections, registry, connSem, pc, authReq, user, requested,
                   ownerCheck, boundDomains, cleaned, resp>>

Next ==
    \E c \in Conns :
        \/ Accept(c) /\ UNCHANGED exceptBroker
        \/ YamuxServer(c) /\ UNCHANGED exceptBroker
        \/ AcceptStream(c) /\ UNCHANGED exceptBroker
        \/ DecodeAuth(c) /\ UNCHANGED exceptBroker
        \/ Auth(c) /\ UNCHANGED exceptBroker
        \/ Tunnel(c) /\ UNCHANGED exceptBroker
        \/ Bind(c) /\ UNCHANGED exceptBroker
        \/ Respond(c) /\ UNCHANGED exceptBroker
        \/ Cleanup(c) /\ UNCHANGED exceptBroker
        \/ SessionClose(c) /\ UNCHANGED exceptBroker

Spec == Init /\ [][Next]_vars

\* The same server with MaxConnections set to a small limit.
InitCap ==
    /\ InitServer(SmallMaxConnections)
    /\ InitUsers
    /\ InitIngress
    /\ bytesUsed = [u \in Users |-> 0]
    /\ InitReconnect(DefaultReconnectConfig)
    /\ InitTunnel(<<"localhost", "4443">>, "sk_live_12345")
    /\ InitStreams("nil")
    /\ InitProxy(<<>>)
    /\ InitControlPlane
    /\ InitBus(DefaultBufferSize)
    /\ InitLock
    /\ InitUpdater("", "linux", <<>>, NoSignature, "release binary")

SpecCap == InitCap /\ [][Next]_vars

\* The close watcher goroutine of each session is scheduled fairly.
SpecFair == Init /\ [][Next]_vars /\ \A c \in Conns : WF_vars(Cleanup(c) /\ UNCHANGED exceptBroker)

\* ------------------------------------------------- UserSessionRegistry

\* The map sessions (userID -> *UserSession) is held as the set of its
\* values; the key of a value is its UserID field.

\* Domains lists passed to UserSessionRegistry.Register.
DomainLists == {<<>>, <<"misty-river">>}

\* r.sessions[userID], the nil pointer (Nil) when the key is absent.
UserLookup(sessions, userID) ==
    IF \E e \in sessions : e.UserID = userID
    THEN CHOOSE e \in sessions : e.UserID = userID
    ELSE Nil

\* UserSessionRegistry.GetSession: the session and whether it exists.
UserGetSession(sessions, userID) ==
    <<UserLookup(sessions, userID), \E e \in sessions : e.UserID = userID>>

\* UserSessionRegistry.IsConnected.
IsConnected(sessions, userID) == \E e \in sessions : e.UserID = userID

\* A Register that adds the new session without replacing the old one.
UserRegister_Add(sessions, userID, session, domains) ==
    [sessions |-> sessions \cup
                    {[UserID |-> userID, Session |-> session, Domains |-> domains]},
     old |-> UserLookup(sessions, userID)]

\* UserSessionRegistry.Register: old := sessions[userID]; sessions[userID] =
\* &UserSession{...}; return old.  The result is the new map and old.
UserRegister(sessions, userID, session, domains) ==
    [sessions |-> {e \in sessions : e.UserID # userID} \cup
                    {[UserID |-> userID, Session |-> session, Domains |-> domains]},
     old |-> UserLookup(sessions, userID)]

\* UserSessionRegistry.Unregister: delete(sessions, userID).
UserUnregister(sessions, userID) == {e \in sessions : e.UserID # userID}

\* A caller registers a session for a user.
CallRegister(u, s, d) ==
    /\ userCalls < MaxUserCalls
    /\ userSessions' = UserRegister(userSessions, u, s, d).sessions
    /\ lastCall' = [op |-> "Register", userID |-> u, session |-> s, domains |-> d,
                    before |-> userSessions,
                    ret |-> UserRegister(userSessions, u, s, d).old]
    /\ userCalls' = userCalls + 1

\* A caller unregisters a user.
CallUnregister(u) ==
    /\ userCalls < MaxUserCalls
    /\ userSessions' = UserUnregister(userSessions, u)
    /\ lastCall' = [op |-> "Unregister", userID |-> u, session |-> 0, domains |-> <<>>,
                    before |-> userSessions, ret |-> Nil]
    /\ userCalls' = userCalls + 1

NextUsers ==
    \/ \E u \in Users, s \in Conns, d \in DomainLists :
          CallRegister(u, s, d) /\ UNCHANGED exceptUsers
    \/ \E u \in Users : CallUnregister(u) /\ UNCHANGED exceptUsers

SpecUsers == Init /\ [][NextUsers]_vars

\* What a session's registration in the user-session registry leaves alone.
exceptUserSession == <<ingressVars, reconnectVars, agentVars, streamVars, proxyVars, serverVars, busVars, lockVars, updateVars>>

\* The end of a handshake of user u on connection s: the session is
\* registered for the user and the session Register returned, when there is
\* one, is closed by the caller; the close watcher of s is started.
HandshakeRegister(u, s, d) ==
    /\ pc[s] = "listening"
    /\ CallRegister(u, s, d)
    /\ pc' = [pc EXCEPT ![s] = "watching"]
    /\ user' = [user EXCEPT ![s] = u]
    /\ LET old == UserRegister(userSessions, u, s, d).old
       IN  closed' = IF old # Nil THEN [closed EXCEPT ![old.Session] = TRUE] ELSE closed
    /\ UNCHANGED <<rootDomain, registry, maxConnections, connSem, authReq, requested,
                   ownerCheck, boundDomains, cleaned, resp>>

\* The close watcher of session s, woken by the close signal, unregisters
\* the session's user and ends.
WatcherUnregister(s) ==
    /\ pc[s] = "watching"
    /\ closed[s]
    /\ CallUnregister(user[s])
    /\ pc' = [pc EXCEPT ![s] = "ended"]
    /\ UNCHANGED <<rootDomain, registry, maxConnections, connSem, closed, authReq, user,
                   requested, ownerCheck, boundDomains, cleaned, resp>>

NextUserSessions ==
    \/ \E u \in Users, s \in Conns, d \in DomainLists :
          HandshakeRegister(u, s, d) /\ UNCHANGED exceptUserSession
    \/ \E s \in Conns : SessionClose(s) /\ UNCHANGED exceptBroker
    \/ \E s \in Conns : WatcherUnregister(s) /\ UNCHANGED exceptUserSession

SpecUserSessions == Init /\ [][NextUserSessions]_vars

\* ------------------------------------------------------------- the ingress

\* Host headers of public requests, as the strings joined by "." with the
\* port, when there is one, after ":".
Hosts ==
    { <<"misty-river", "example.com">>,
      <<"misty-river">>,
      <<"silent-star", "example.com", ":", "8080">>,
      <<"nope", "example.com">>,
      <<"nope", "example.com", ":", "8080">>,
      <<"example.com">>,
      <<"app", "example.com">> }

\* Status codes the local service behind a tunnel answers with.
UpstreamStatus == {200, 500}

\* The daily limit in bytes.
DailyBandwidthLimit == DailyBandwidthLimitMB * 1024 * 1024

\* A port strip that returns the header as it came.
StripPort_Keeps(h) == h

\* if strings.Contains(host, ":") { host = strings.Split(host, ":")[0] }
StripPort(h) ==
    IF \E i \in 1..Len(h) : h[i] = ":"
    THEN SubSeq(h, 1, (CHOOSE i \in 1..Len(h) :
                          h[i] = ":" /\ \A j \in 1..(i - 1) : h[j] # ":") - 1)
    ELSE h

\* A request arrives: gin calls handleRequest with a fresh context.
Receive(h) ==
    /\ ipc = "serve"
    /\ requests < MaxRequests
    /\ requests' = requests + 1
    /\ reqHost' = h
    /\ host' = <<>>
    /\ reqSession' = 0
    /\ stream' = "none"
    /\ written' = FALSE
    /\ status' = 0
    /\ body' = <<>>
    /\ ipc' = "route"
    /\ UNCHANGED bytesUsed

\* The host is stripped of its port; the root domain is the landing page,
\* app.<root> the dashboard, any other host is looked up in the registry.
Route ==
    /\ ipc = "route"
    /\ LET h == StripPort(reqHost)
       IN  /\ host' = h
           /\ IF rootDomain # "" /\ h = <<rootDomain>>
              THEN /\ status' = 200
                   /\ body' = <<"Welcome to GoPublic", rootDomain>>
                   /\ ipc' = "serve"
                   /\ UNCHANGED reqSession
              ELSE IF rootDomain # "" /\ h = <<"app", rootDomain>>
              THEN /\ status' = 200
                   /\ body' = <<"GoPublic Dashboard">>
                   /\ ipc' = "serve"
                   /\ UNCHANGED reqSession
              ELSE IF GetSession(registry, h) = 0
              THEN /\ status' = 404
                   /\ body' = <<"Tunnel not found for host: ", h>>
                   /\ ipc' = "serve"
                   /\ UNCHANGED reqSession
              ELSE /\ reqSession' = GetSession(registry, h)
                   /\ ipc' = "open"
                   /\ UNCHANGED <<status, body>>
    /\ UNCHANGED <<reqHost, stream, written, requests, bytesUsed>>

\* An ingress that answers a failed session.Open() as an unknown host.
OpenStream_NotFound ==
    /\ ipc = "open"
    /\ \/ /\ status' = 404
          /\ body' = <<"Tunnel not found for host: ", host>>
          /\ ipc' = "serve"
          /\ UNCHANGED stream
       \/ /\ ~closed[reqSession]
          /\ stream' = "open"
          /\ ipc' = "write"
          /\ UNCHANGED <<status, body>>
    /\ UNCHANGED <<reqHost, host, reqSession, written, requests, bytesUsed>>

\* session.Open(): it fails on a session that has closed and may fail on a
\* live one; on failure 502 and return, otherwise the stream is open and its
\* Close is deferred.
OpenStream ==
    /\ ipc = "open"
    /\ \/ /\ status' = 502
          /\ body' = <<"Failed to connect to tunnel client">>
          /\ ipc' = "serve"
          /\ UNCHANGED stream
       \/ /\ ~closed[reqSession]
          /\ stream' = "open"
          /\ ipc' = "write"
          /\ UNCHANGED <<status, body>>
    /\ UNCHANGED <<reqHost, host, reqSession, written, requests, bytesUsed>>

\* c.Request.Write(stream): on error 502 and return (the deferred Close
\* runs); it cannot succeed on a session that has closed.
Forward ==
    /\ ipc = "write"
    /\ \/ /\ status' = 502
          /\ stream' = "closed"
          /\ ipc' = "serve"
          /\ UNCHANGED written
       \/ /\ ~closed[reqSession]
          /\ written' = TRUE
          /\ ipc' = "read"
          /\ UNCHANGED <<status, stream>>
    /\ UNCHANGED <<reqHost, host, reqSession, body, requests, bytesUsed>>

\* http.ReadResponse on the stream: on error 502; otherwise the status and
\* body of the agent's response are copied to the client.  The handler
\* returns and the deferred stream.Close() runs.
ReadResponse ==
    /\ ipc = "read"
    /\ \/ /\ status' = 502
          /\ UNCHANGED body
       \/ /\ ~closed[reqSession]
          /\ \E code \in UpstreamStatus : status' = code
          /\ body' = <<"pong">>
    /\ stream' = "closed"
    /\ ipc' = "serve"
    /\ UNCHANGED <<reqHost, host, reqSession, written, requests, bytesUsed>>

\* The broker with one tunnel up: connection 1 completed the handshake of
\* user 1, who asked for all of their domains; its handler has returned and
\* its close watcher waits.
InitEstablished ==
    /\ rootDomain \in RootDomains
    /\ maxConnections = MaxConnections
    /\ connSem = 0
    /\ pc = [c \in Conns |-> IF c = 1 THEN "watching" ELSE "listening"]
    /\ closed = [c \in Conns |-> FALSE]
    /\ authReq = [c \in Conns |-> Nil]
    /\ user = [c \in Conns |-> IF c = 1 THEN 1 ELSE 0]
    /\ requested = [c \in Conns |-> <<>>]
    /\ ownerCheck = [c \in Conns |-> Nil]
    /\ cleaned = [c \in Conns |-> 0]
    /\ boundDomains = [c \in Conns |->
          IF c = 1 THEN <<RegName("misty-river", rootDomain), RegName("silent-star", rootDomain)>>
          ELSE <<>>]
    /\ resp = [c \in Conns |->
          IF c = 1 THEN [Success |-> TRUE, Error |-> "", ErrorCode |-> ErrorCodeNone,
                         BoundDomains |-> boundDomains[1]]
          ELSE Nil]
    /\ registry = TunnelRegister(
                      TunnelRegister(<<>>, RegName("misty-river", rootDomain), 1, 1, FALSE),
                      RegName("silent-star", rootDomain), 1, 1, FALSE)

\* The ingress serving requests while the tunnel's session may close and its
\* close watcher run; the bandwidth table holds any of two usages per user.
InitTunnels ==
    /\ InitEstablished
    /\ InitUsers
    /\ InitIngress
    /\ bytesUsed \in [Users -> {0, DailyBandwidthLimit}]
    /\ InitReconnect(DefaultReconnectConfig)
    /\ InitTunnel(<<"localhost", "4443">>, "sk_live_12345")
    /\ InitStreams("nil")
    /\ InitProxy(<<>>)
    /\ InitControlPlane
    /\ InitBus(DefaultBufferSize)
    /\ InitLock
    /\ InitUpdater("", "linux", <<>>, NoSignature, "release binary")

NextIngress ==
    \/ \E h \in Hosts : Receive(h) /\ UNCHANGED exceptIngress
    \/ Route /\ UNCHANGED exceptIngress
    \/ OpenStream /\ UNCHANGED exceptIngress
    \/ Forward /\ UNCHANGED exceptIngress
    \/ ReadResponse /\ UNCHANGED exceptIngress
    \/ \E c \in Conns : SessionClose(c) /\ UNCHANGED exceptBroker
    \/ \E c \in Conns : Cleanup(c) /\ UNCHANGED exceptBroker

SpecIngress == InitTunnels /\ [][NextIngress]_vars

\* ------------------------------------------- the agent's reconnect loop

\* The configurations StartWithReconnect runs with: nil, which it replaces
\* by the default, and a caller's own with a limit on the attempts.
ReconnectConfigs ==
    { DefaultReconnectConfig,
      [InitialDelay |-> 5, MaxDelay |-> 8, Multiplier |-> 2, MaxAttempts |-> 3] }

\* fmt.Errorf("server error: %s", resp.Error): what handleSession returns for
\* an InitResponse with success=false.
ServerError(r) == [kind |-> "error", msg |-> <<"server error: ", r.Error>>]

\* What t.Start() returns: nil when the session ended normally, a plain
\* error (the dial failed, the handshake was rejected, the session broke) or
\* an AlreadyConnectedError.
StartResults ==
    { [kind |-> "nil", msg |-> <<>>],
      [kind |-> "error", msg |-> <<"failed to connect">>],
      [kind |-> "error", msg |-> <<"session ended">>],
      ServerError(sendError("Invalid Token")),
      [kind |-> "AlreadyConnectedError", msg |-> <<"already connected">>] }

\* An IsAlreadyConnectedError that recognises no error.
IsAlreadyConnectedError_Never(err) == FALSE

\* IsAlreadyConnectedError: errors.As(err, &acErr).
IsAlreadyConnectedError(err) == err.kind = "AlreadyConnectedError"

\* A backoff that multiplies without the MaxDelay cap.
Backoff_NoCap(d, c) == d * c.Multiplier

\* delay = delay * cfg.Multiplier, capped at cfg.MaxDelay.
Backoff(d, c) ==
    IF d * c.Multiplier > c.MaxDelay THEN c.MaxDelay ELSE d * c.Multiplier

\* StartWithReconnect returns err.
Stop(err) ==
    /\ rpc' = "stopped"
    /\ retErr' = err

\* A loop that does not look at ctx at its top.
LoopTop_NoCtxCheck ==
    /\ rpc = "loop"
    /\ starts < MaxStarts
    /\ attempt' = attempt + 1
    /\ IF cfg.MaxAttempts > 0 /\ attempt + 1 > cfg.MaxAttempts
       THEN Stop([kind |-> "error", msg |-> <<"max reconnection attempts exceeded">>])
       ELSE /\ rpc' = IF attempt + 1 > 1 THEN "wait" ELSE "start"
            /\ UNCHANGED retErr
    /\ UNCHANGED <<cfg, delay, startErr, waits, starts, ctxDone, shutdownCalled>>

\* Top of the loop: return when ctx is done; count the attempt; give up past
\* MaxAttempts; wait before every attempt but the first.
LoopTop ==
    /\ rpc = "loop"
    /\ ctxDone \/ starts < MaxStarts
    /\ IF ctxDone
       THEN /\ Stop([kind |-> "error", msg |-> <<"context canceled">>])
            /\ UNCHANGED attempt
       ELSE /\ attempt' = attempt + 1
            /\ IF cfg.MaxAttempts > 0 /\ attempt + 1 > cfg.MaxAttempts
               THEN Stop([kind |-> "error", msg |-> <<"max reconnection attempts exceeded">>])
               ELSE /\ rpc' = IF attempt + 1 > 1 THEN "wait" ELSE "start"
                    /\ UNCHANGED retErr
    /\ UNCHANGED <<cfg, delay, startErr, waits, starts, ctxDone, shutdownCalled>>

\* select on time.After(delay) and ctx.Done(): the timer of a positive delay
\* is not ready when the select begins, so a context that is already done is
\* the case taken.
Wait ==
    /\ rpc = "wait"
    /\ \/ /\ ~ctxDone
          /\ waits' = Append(waits, delay)
          /\ rpc' = "start"
          /\ UNCHANGED retErr
       \/ /\ ctxDone
          /\ Stop([kind |-> "error", msg |-> <<"context canceled">>])
          /\ UNCHANGED waits
    /\ UNCHANGED <<cfg, attempt, delay, startErr, starts, ctxDone, shutdownCalled>>

\* err := t.Start() and what follows: an AlreadyConnectedError is returned,
\* any other error grows the delay, nil resets attempt and delay.
Connect ==
    /\ rpc = "start"
    /\ starts' = starts + 1
    /\ \E err \in StartResults :
         /\ startErr' = err
         /\ IF err.kind # "nil"
            THEN IF IsAlreadyConnectedError(err)
                 THEN /\ Stop(err)
                      /\ UNCHANGED <<attempt, delay, waits>>
                 ELSE /\ delay' = Backoff(delay, cfg)
                      /\ rpc' = "loop"
                      /\ UNCHANGED <<attempt, retErr, waits>>
            ELSE /\ attempt' = 0
                 /\ delay' = cfg.InitialDelay
                 /\ waits' = <<>>
                 /\ rpc' = "loop"
                 /\ UNCHANGED retErr
    /\ UNCHANGED <<cfg, ctxDone, shutdownCalled>>

\* The caller cancels ctx.
Cancel ==
    /\ ~ctxDone
    /\ rpc # "stopped"
    /\ ctxDone' = TRUE
    /\ UNCHANGED <<rpc, cfg, attempt, delay, startErr, retErr, waits, starts, shutdownCalled>>

\* The goroutine started at the entry of StartWithReconnect: once ctx is
\* done it calls t.Shutdown with a timeout of five seconds.
Monitor ==
    /\ ctxDone
    /\ ~shutdownCalled
    /\ shutdownCalled' = TRUE
    /\ UNCHANGED <<rpc, cfg, attempt, delay, startErr, retErr, waits, starts, ctxDone>>

InitAgent ==
    /\ InitBroker
    /\ InitUsers
    /\ InitIngress
    /\ bytesUsed = [u \in Users |-> 0]
    /\ \E c \in ReconnectConfigs : InitReconnect(c)
    /\ InitTunnel(<<"localhost", "4443">>, "sk_live_12345")
    /\ InitStreams("nil")
    /\ InitProxy(<<>>)
    /\ InitControlPlane
    /\ InitBus(DefaultBufferSize)
    /\ InitLock
    /\ InitUpdater("", "linux", <<>>, NoSignature, "release binary")

NextReconnect ==
    \/ LoopTop /\ UNCHANGED exceptReconnect
    \/ Wait /\ UNCHANGED exceptReconnect
    \/ Connect /\ UNCHANGED exceptReconnect
    \/ Cancel /\ UNCHANGED exceptReconnect
    \/ Monitor /\ UNCHANGED exceptReconnect

SpecReconnect == InitAgent /\ [][NextReconnect]_vars

\* t.Start() returns in this step, the tunnel having been shut down.
StartReturnsAfterShutdown == shutdownCalled /\ Connect

\* The loop and the monitor goroutine keep running; a t.Start() in progress
\* returns once the tunnel has been shut down, while a session that is
\* online may otherwise last for ever.
SpecReconnectFair ==
    /\ SpecReconnect
    /\ WF_vars(LoopTop /\ UNCHANGED exceptReconnect)
    /\ WF_vars(Wait /\ ctxDone /\ UNCHANGED exceptReconnect)
    /\ WF_vars(Monitor /\ UNCHANGED exceptReconnect)
    /\ WF_vars(StartReturnsAfterShutdown /\ UNCHANGED exceptReconnect)

\* --------------------------------------------- the agent's handshake

\* The broker's end of the connection is gone: the session closed or the
\* handler returned without one.
BrokerGone == closed[1] \/ pc[1] = "returned"

\* handleSession returns err.
AgentReturn(err) ==
    /\ apc' = "returned"
    /\ agentErr' = err

\* The broker addresses an agent is configured with: loopback names with a
\* port, a loopback name without one, and a public host.
ServerAddrs ==
    { <<"localhost", "4443">>, <<"127.0.0.1", "4443">>, <<"localhost">>,
      <<"gopublic.su", "4443">> }

\* net.SplitHostPort: the host of an address with a port; an address without
\* a port is an error and the host returned is empty.
SplitHostPort(addr) == IF Len(addr) = 2 THEN addr[1] ELSE ""

\* isLocal of Tunnel.Start: the host, or the whole address when the split
\* gave none, is localhost, 127.0.0.1 or ::1.
IsLocal(addr) ==
    LET dialHost == IF SplitHostPort(addr) = "" THEN addr[1] ELSE SplitHostPort(addr)
    IN  dialHost \in {"localhost", "127.0.0.1", "::1"}

\* The dial succeeded over transport how; handleSession starts.
Dialled(how) ==
    /\ transport' = how
    /\ apc' = "open"
    /\ UNCHANGED agentErr

\* Tunnel.Start: plain TCP to a local server; otherwise TLS and, when the
\* TLS dial fails, plain TCP to the same address.
DialServer ==
    /\ apc = "dial"
    /\ IF IsLocal(serverAddr)
       THEN \/ Dialled("plain")
            \/ /\ AgentReturn([kind |-> "error", msg |-> <<"failed to connect to local server">>])
               /\ UNCHANGED transport
       ELSE \/ Dialled("tls")
            \/ Dialled("plain")
            \/ /\ AgentReturn([kind |-> "error", msg |-> <<"failed to connect">>])
               /\ UNCHANGED transport
    /\ UNCHANGED <<agentToken, serverAddr, handshake, toBroker, toAgent, streamLog, agentResp>>

\* yamux.Client and session.Open() of the handshake stream.
OpenHandshake ==
    /\ apc = "open"
    /\ \/ /\ ~BrokerGone
          /\ handshake' = "open"
          /\ apc' = "sendAuth"
          /\ UNCHANGED agentErr
       \/ /\ BrokerGone
          /\ AgentReturn([kind |-> "error", msg |-> <<"failed to open handshake stream">>])
          /\ UNCHANGED handshake
    /\ UNCHANGED <<agentToken, serverAddr, transport, toBroker, toAgent, streamLog, agentResp>>

\* The agent writes message m of type t on the handshake stream and goes on
\* at next; the write may fail once the broker's end is gone.
Encode(m, next) ==
    \/ /\ toBroker' = Append(toBroker, m)
       /\ streamLog' = Append(streamLog, m.type)
       /\ apc' = next
       /\ UNCHANGED agentErr
    \/ /\ BrokerGone
       /\ AgentReturn([kind |-> "error", msg |-> <<"write failed">>])
       /\ UNCHANGED <<toBroker, streamLog>>

\* json.NewEncoder(stream).Encode(protocol.AuthRequest{Token: t.Token}).
SendAuth ==
    /\ apc = "sendAuth"
    /\ Encode([type |-> "AuthRequest", Token |-> agentToken, Force |-> FALSE], "sendTunnel")
    /\ UNCHANGED <<agentToken, serverAddr, transport, handshake, toAgent, agentResp>>

\* Encode(protocol.TunnelRequest{RequestedDomains: []string{}}).
SendTunnel ==
    /\ apc = "sendTunnel"
    /\ Encode([type |-> "TunnelRequest", RequestedDomains |-> <<>>], "readResp")
    /\ UNCHANGED <<agentToken, serverAddr, transport, handshake, toAgent, agentResp>>

\* An agent that goes on to accept streams whatever the response says.
ReadInit_AnyResponse ==
    /\ apc = "readResp"
    /\ toAgent # <<>>
    /\ agentResp' = Head(toAgent)
    /\ toAgent' = Tail(toAgent)
    /\ handshake' = "closed"
    /\ apc' = "accepting"
    /\ UNCHANGED <<agentToken, serverAddr, transport, toBroker, streamLog, agentErr>>

\* Decode of the InitResponse: a read error and a response with
\* success=false are returned as errors; on success the handshake stream is
\* closed and the agent goes on to accept streams.
ReadInit ==
    /\ apc = "readResp"
    /\ \/ /\ toAgent # <<>>
          /\ agentResp' = Head(toAgent)
          /\ toAgent' = Tail(toAgent)
          /\ IF Head(toAgent).Success
             THEN /\ handshake' = "closed"
                  /\ apc' = "accepting"
                  /\ UNCHANGED agentErr
             ELSE /\ AgentReturn(ServerError(Head(toAgent)))
                  /\ UNCHANGED handshake
       \/ /\ toAgent = <<>>
          /\ BrokerGone
          /\ AgentReturn([kind |-> "error", msg |-> <<"handshake read failed">>])
          /\ UNCHANGED <<toAgent, agentResp, handshake>>
    /\ UNCHANGED <<agentToken, serverAddr, transport, toBroker, streamLog>>

\* The loop on session.Accept() ends with an error when the session closes.
AcceptStreams ==
    /\ apc = "accepting"
    /\ closed[1]
    /\ AgentReturn([kind |-> "error", msg |-> <<"session ended">>])
    /\ UNCHANGED <<agentToken, serverAddr, transport, handshake, toBroker, toAgent, streamLog, agentResp>>

\* A step of the broker's handler of connection 1 seen from the wire: an
\* InitResponse the handler encodes travels to the agent.
Wire(A) ==
    /\ A
    /\ IF resp'[1] # resp[1]
       THEN /\ toAgent' = Append(toAgent, resp'[1])
            /\ streamLog' = Append(streamLog, "InitResponse")
       ELSE UNCHANGED <<toAgent, streamLog>>
    /\ UNCHANGED <<apc, agentToken, serverAddr, transport, handshake, agentResp, agentErr>>

\* The broker's decode of the AuthRequest takes the agent's message from the
\* stream; it fails when none can come any more.
WireDecodeAuth ==
    /\ DecodeAuth(1)
    /\ IF toBroker # <<>> /\ Head(toBroker).type = "AuthRequest"
       THEN /\ authReq'[1] = [Token |-> Head(toBroker).Token, Force |-> Head(toBroker).Force]
            /\ toBroker' = Tail(toBroker)
       ELSE /\ apc = "returned"
            /\ pc'[1] = "returned"
            /\ UNCHANGED toBroker
    /\ UNCHANGED <<apc, agentToken, serverAddr, transport, handshake, toAgent, streamLog, agentResp, agentErr>>

\* The broker's decode of the TunnelRequest takes the agent's message from
\* the stream; it fails when none can come any more.
WireTunnel ==
    /\ pc[1] = "decodeTunnel"
    /\ IF toBroker # <<>> /\ Head(toBroker).type = "TunnelRequest"
       THEN /\ TunnelDecoded(1, Head(toBroker).RequestedDomains)
            /\ toBroker' = Tail(toBroker)
       ELSE /\ apc = "returned"
            /\ TunnelDecodeError(1)
            /\ UNCHANGED toBroker
    /\ UNCHANGED <<rootDomain, maxConnections, registry, boundDomains, cleaned>>

\* One agent with any token against a fresh broker.
InitHandshake ==
    /\ InitBroker
    /\ InitUsers
    /\ InitIngress
    /\ bytesUsed = [u \in Users |-> 0]
    /\ InitReconnect(DefaultReconnectConfig)
    /\ \E addr \in ServerAddrs, t \in Tokens : InitTunnel(addr, t)
    /\ InitStreams("nil")
    /\ InitProxy(<<>>)
    /\ InitControlPlane
    /\ InitBus(DefaultBufferSize)
    /\ InitLock
    /\ InitUpdater("", "linux", <<>>, NoSignature, "release binary")

exceptHandshake == <<userVars, ingressVars, reconnectVars, streamVars, proxyVars, serverVars, busVars, lockVars, updateVars>>

NextHandshake ==
    \/ DialServer /\ UNCHANGED <<brokerVars, exceptHandshake>>
    \/ OpenHandshake /\ UNCHANGED <<brokerVars, exceptHandshake>>
    \/ SendAuth /\ UNCHANGED <<brokerVars, exceptHandshake>>
    \/ SendTunnel /\ UNCHANGED <<brokerVars, exceptHandshake>>
    \/ ReadInit /\ UNCHANGED <<brokerVars, exceptHandshake>>
    \/ AcceptStreams /\ UNCHANGED <<brokerVars, exceptHandshake>>
    \/ apc \notin {"dial", "returned"} /\ Wire(Accept(1)) /\ UNCHANGED <<toBroker, exceptHandshake>>
    \/ Wire(YamuxServer(1)) /\ UNCHANGED <<toBroker, exceptHandshake>>
    \/ /\ Wire(AcceptStream(1)) /\ UNCHANGED <<toBroker, exceptHandshake>>
       /\ IF handshake = "none" THEN apc = "returned" /\ pc'[1] = "returned"
                                ELSE pc'[1] = "decodeAuth"
    \/ WireDecodeAuth /\ UNCHANGED exceptHandshake
    \/ Wire(Auth(1)) /\ UNCHANGED <<toBroker, exceptHandshake>>
    \/ Wire(WireTunnel) /\ UNCHANGED exceptHandshake
    \/ Wire(Bind(1)) /\ UNCHANGED <<toBroker, exceptHandshake>>
    \/ Wire(Respond(1)) /\ UNCHANGED <<toBroker, exceptHandshake>>
    \/ Wire(SessionClose(1)) /\ UNCHANGED <<toBroker, exceptHandshake>>
    \/ Wire(Cleanup(1)) /\ UNCHANGED <<toBroker, exceptHandshake>>

SpecHandshake == InitHandshake /\ [][NextHandshake]_vars

\* ------------------------------------- the agent's set of active streams

\* A Lock that does not wait for the mutex.
Lock_NoWait(h) == mu' = h

\* t.mu.Lock() by holder h: waits until the mutex is free.
Lock(h) ==
    /\ mu = {}
    /\ mu' = h

\* trackConn(conn): under the mutex, the map is read ...
TrackLock(w) ==
    /\ wpc[w] = "idle"
    /\ Lock({w})
    /\ snap' = [snap EXCEPT ![w] = activeConns]
    /\ wpc' = [wpc EXCEPT ![w] = "trackStore"]
    /\ UNCHANGED <<activeConns, connClosed, spc, tracked, toClose, shutdownRet, shutdowns, tsession>>

\* ... and written with conn inserted; the mutex is released.
TrackStore(w) ==
    /\ wpc[w] = "trackStore"
    /\ activeConns' = snap[w] \cup {w}
    /\ snap' = [snap EXCEPT ![w] = {}]
    /\ mu' = {}
    /\ wpc' = [wpc EXCEPT ![w] = "tracked"]
    /\ UNCHANGED <<connClosed, spc, tracked, toClose, shutdownRet, shutdowns, tsession>>

\* untrackConn(conn) on completion of the stream: under the mutex, the map
\* is read ...
UntrackLock(w) ==
    /\ wpc[w] = "tracked"
    /\ Lock({w})
    /\ snap' = [snap EXCEPT ![w] = activeConns]
    /\ wpc' = [wpc EXCEPT ![w] = "untrackStore"]
    /\ UNCHANGED <<activeConns, connClosed, spc, tracked, toClose, shutdownRet, shutdowns, tsession>>

\* ... and written with conn deleted; the mutex is released and the worker
\* closes its connection.
UntrackStore(w) ==
    /\ wpc[w] = "untrackStore"
    /\ activeConns' = snap[w] \ {w}
    /\ snap' = [snap EXCEPT ![w] = {}]
    /\ mu' = {}
    /\ connClosed' = connClosed \cup {w}
    /\ wpc' = [wpc EXCEPT ![w] = "done"]
    /\ UNCHANGED <<spc, tracked, toClose, shutdownRet, shutdowns, tsession>>

\* Shutdown(ctx) is called: it takes the mutex and goes through the
\* connections tracked at this moment.
ShutdownCall ==
    /\ spc \in {"idle", "returned"}
    /\ shutdowns < MaxShutdowns
    /\ Lock(ShutdownHolder)
    /\ shutdowns' = shutdowns + 1
    /\ tracked' = activeConns
    /\ toClose' = activeConns
    /\ shutdownRet' = Nil
    /\ spc' = "closing"
    /\ UNCHANGED <<activeConns, connClosed, wpc, snap, tsession>>

\* A Shutdown that leaves the connections open.
ShutdownClose_None ==
    /\ spc = "closing"
    /\ toClose # {}
    /\ toClose' = {}
    /\ UNCHANGED <<activeConns, connClosed, mu, wpc, snap, spc, tracked, shutdownRet,
                   shutdowns, tsession>>

\* Shutdown closes one of the tracked connections (closing a connection
\* that is closed already changes nothing).
ShutdownClose ==
    /\ spc = "closing"
    /\ \E conn \in toClose :
         /\ connClosed' = connClosed \cup {conn}
         /\ toClose' = toClose \ {conn}
    /\ UNCHANGED <<activeConns, mu, wpc, snap, spc, tracked, shutdownRet, shutdowns, tsession>>

\* After the last connection Shutdown closes the session, when there is
\* one, releases the mutex and returns nil.
ShutdownReturn ==
    /\ spc = "closing"
    /\ toClose = {}
    /\ tsession' = IF tsession = "nil" THEN "nil" ELSE "closed"
    /\ mu' = {}
    /\ shutdownRet' = NoError
    /\ spc' = "returned"
    /\ UNCHANGED <<activeConns, connClosed, wpc, snap, tracked, toClose, shutdowns>>

\* Tunnels that were never started and tunnels with a session.
InitStreamSet ==
    /\ InitBroker
    /\ InitUsers
    /\ InitIngress
    /\ bytesUsed = [u \in Users |-> 0]
    /\ InitReconnect(DefaultReconnectConfig)
    /\ InitTunnel(<<"localhost", "4443">>, "sk_live_12345")
    /\ \E s \in {"nil", "open"} : InitStreams(s)
    /\ InitProxy(<<>>)
    /\ InitControlPlane
    /\ InitBus(DefaultBufferSize)
    /\ InitLock
    /\ InitUpdater("", "linux", <<>>, NoSignature, "release binary")

NextStreams ==
    \/ \E w \in Workers : TrackLock(w) /\ UNCHANGED exceptStreams
    \/ \E w \in Workers : TrackStore(w) /\ UNCHANGED exceptStreams
    \/ \E w \in Workers : UntrackLock(w) /\ UNCHANGED exceptStreams
    \/ \E w \in Workers : UntrackStore(w) /\ UNCHANGED exceptStreams
    \/ ShutdownCall /\ UNCHANGED exceptStreams
    \/ ShutdownClose /\ UNCHANGED exceptStreams
    \/ ShutdownReturn /\ UNCHANGED exceptStreams

SpecStreams == InitStreamSet /\ [][NextStreams]_vars

\* ------------------------------------------ the agent's per-stream worker

\* The broker writes the next piece on the stream.
BrokerWrite ==
    /\ toSend # <<>>
    /\ ~remoteEOF
    /\ remoteIn' = Append(remoteIn, Head(toSend))
    /\ sent' = Append(sent, Head(toSend))
    /\ toSend' = Tail(toSend)
    /\ UNCHANGED <<ppc, remoteEOF, reader, localIn, localOut, localEOF, remoteOut, acopy,
                   remoteClosed, localClosed, dialFailed, replies>>

\* The broker closes its end of the stream (the ingress handler returned).
BrokerClose ==
    /\ ~remoteEOF
    /\ remoteEOF' = TRUE
    /\ UNCHANGED <<ppc, toSend, sent, remoteIn, reader, localIn, localOut, localEOF, remoteOut,
                   acopy, remoteClosed, localClosed, dialFailed, replies>>

\* The loopback service answers what it received.
ServiceWrite ==
    /\ localIn # <<>>
    /\ ~localEOF
    /\ ~localClosed
    /\ replies < MaxReplies
    /\ replies' = replies + 1
    /\ localOut' = Append(localOut, ServiceResponse)
    /\ UNCHANGED <<ppc, toSend, sent, remoteIn, remoteEOF, reader, localIn, localEOF, remoteOut,
                   acopy, remoteClosed, localClosed, dialFailed>>

\* The loopback service closes the connection.
ServiceClose ==
    /\ ppc \notin {"dial", "done"}
    /\ ~localEOF
    /\ localEOF' = TRUE
    /\ UNCHANGED <<ppc, toSend, sent, remoteIn, remoteEOF, reader, localIn, localOut, remoteOut,
                   acopy, remoteClosed, localClosed, dialFailed, replies>>

\* The deferred Close calls run and proxyStream returns.
ProxyReturn ==
    /\ ppc' = "done"
    /\ remoteClosed' = TRUE
    /\ localClosed' = (ppc # "dial")

\* net.Dial of the loopback service: on error the worker logs and returns,
\* which closes the stream; nothing is written on it.
DialLocal ==
    /\ ppc = "dial"
    /\ \/ /\ ppc' = "parse"
          /\ UNCHANGED <<remoteClosed, localClosed, dialFailed>>
       \/ /\ dialFailed' = TRUE
          /\ ProxyReturn
    /\ UNCHANGED <<toSend, sent, remoteIn, remoteEOF, reader, localIn, localOut, localEOF,
                   remoteOut, acopy, replies>>

\* http.ReadRequest(bufio.NewReader(remote)): the reader takes what the
\* stream holds; a request goes on to be forwarded, anything else (the end
\* of the stream included) starts the opaque copy, whose goroutine and main
\* loop both read the stream itself, not the reader.
ParseRequest ==
    /\ ppc = "parse"
    /\ remoteIn # <<>> \/ remoteEOF
    /\ reader' = remoteIn
    /\ remoteIn' = <<>>
    /\ IF remoteIn # <<>> /\ IsRequest(Head(remoteIn))
       THEN /\ ppc' = "forward"
            /\ UNCHANGED acopy
       ELSE /\ ppc' = "copy"
            /\ acopy' = "running"
    /\ UNCHANGED <<toSend, sent, remoteEOF, localIn, localOut, localEOF, remoteOut,
                   remoteClosed, localClosed, dialFailed, replies>>

\* go io.Copy(local, remote): a piece read from the stream is written to the
\* loopback connection; the copy ends at the end of the stream or when a
\* connection has been closed under it.
CopyToLocal ==
    /\ acopy = "running"
    /\ IF remoteClosed \/ localClosed
       THEN /\ acopy' = "done"
            /\ UNCHANGED <<remoteIn, localIn>>
       ELSE IF remoteIn # <<>>
       THEN /\ localIn' = Append(localIn, Head(remoteIn))
            /\ remoteIn' = Tail(remoteIn)
            /\ UNCHANGED acopy
       ELSE /\ remoteEOF
            /\ acopy' = "done"
            /\ UNCHANGED <<remoteIn, localIn>>
    /\ UNCHANGED <<ppc, toSend, sent, remoteEOF, reader, localOut, localEOF, remoteOut,
                   remoteClosed, localClosed, dialFailed, replies>>

\* io.Copy(remote, local): a piece read from the loopback connection is
\* written to the stream (a write on a stream the broker has closed may
\* fail); the copy ends when the service has closed, and proxyStream returns.
CopyToRemote ==
    /\ ppc = "copy"
    /\ IF localOut # <<>>
       THEN \/ /\ remoteOut' = Append(remoteOut, Head(localOut))
               /\ localOut' = Tail(localOut)
               /\ UNCHANGED <<ppc, remoteClosed, localClosed>>
            \/ /\ remoteEOF
               /\ ProxyReturn
               /\ UNCHANGED <<remoteOut, localOut>>
       ELSE /\ localEOF
            /\ ProxyReturn
            /\ UNCHANGED <<remoteOut, localOut>>
    /\ UNCHANGED <<toSend, sent, remoteIn, remoteEOF, reader, localIn, localEOF, acopy,
                   dialFailed, replies>>

\* req.Write(local): the request is written to the loopback connection; on
\* error the worker returns.
ForwardRequest ==
    /\ ppc = "forward"
    /\ \/ /\ ~localEOF
          /\ localIn' = localIn \o reader
          /\ reader' = <<>>
          /\ ppc' = "readResp"
          /\ UNCHANGED <<remoteClosed, localClosed>>
       \/ /\ localEOF
          /\ ProxyReturn
          /\ UNCHANGED <<localIn, reader>>
    /\ UNCHANGED <<toSend, sent, remoteIn, remoteEOF, localOut, localEOF, remoteOut, acopy,
                   dialFailed, replies>>

\* http.ReadResponse from the loopback connection and resp.Write(remote);
\* the worker returns after the write or on either error.
RelayResponse ==
    /\ ppc = "readResp"
    /\ IF localOut # <<>>
       THEN /\ localOut' = Tail(localOut)
            /\ \/ remoteOut' = Append(remoteOut, Head(localOut))
               \/ remoteEOF /\ UNCHANGED remoteOut
       ELSE /\ localEOF
            /\ UNCHANGED <<localOut, remoteOut>>
    /\ ProxyReturn
    /\ UNCHANGED <<toSend, sent, remoteIn, remoteEOF, reader, localIn, localEOF, acopy,
                   dialFailed, replies>>

\* One stream of an open session, with any payload.
InitProxyStream ==
    /\ InitBroker
    /\ InitUsers
    /\ InitIngress
    /\ bytesUsed = [u \in Users |-> 0]
    /\ InitReconnect(DefaultReconnectConfig)
    /\ InitTunnel(<<"localhost", "4443">>, "sk_live_12345")
    /\ InitStreams("open")
    /\ \E p \in Payloads : InitProxy(p)
    /\ InitControlPlane
    /\ InitBus(DefaultBufferSize)
    /\ InitLock
    /\ InitUpdater("", "linux", <<>>, NoSignature, "release binary")

NextProxy ==
    \/ BrokerWrite /\ UNCHANGED exceptProxy
    \/ BrokerClose /\ UNCHANGED exceptProxy
    \/ ServiceWrite /\ UNCHANGED exceptProxy
    \/ ServiceClose /\ UNCHANGED exceptProxy
    \/ DialLocal /\ UNCHANGED exceptProxy
    \/ ParseRequest /\ UNCHANGED exceptProxy
    \/ CopyToLocal /\ UNCHANGED exceptProxy
    \/ CopyToRemote /\ UNCHANGED exceptProxy
    \/ ForwardRequest /\ UNCHANGED exceptProxy
    \/ RelayResponse /\ UNCHANGED exceptProxy

SpecProxy == InitProxyStream /\ [][NextProxy]_vars

\* The worker and its copy goroutine keep running; the broker and the
\* loopback service write and close when they please.
SpecProxyFair ==
    /\ SpecProxy
    /\ WF_vars(DialLocal /\ UNCHANGED exceptProxy)
    /\ WF_vars(ParseRequest /\ UNCHANGED exceptProxy)
    /\ WF_vars(CopyToLocal /\ UNCHANGED exceptProxy)
    /\ WF_vars(CopyToRemote /\ UNCHANGED exceptProxy)
    /\ WF_vars(ForwardRequest /\ UNCHANGED exceptProxy)
    /\ WF_vars(RelayResponse /\ UNCHANGED exceptProxy)

\* --------------------------------- Server.Start's loop and Server.Shutdown

\* The handler goroutine of a connection is running (it is counted in
\* Server.wg); the close watcher it may leave behind is not.
HandlerStates == {"yamux", "acceptStream", "decodeAuth", "validateToken", "decodeTunnel", "bind"}

\* Server.Shutdown has closed the listener.
ListenerClosed == sdpc \in {"waiting", "returned"}

\* The select at the top of the loop finds the context not cancelled and the
\* loop goes on to listener.Accept().
StartCheck ==
    /\ lpc = "check"
    /\ ~srvCtxDone
    /\ lpc' = "accept"
    /\ UNCHANGED <<srvCtxDone, startRet, sdpc, srvShutdownRet, accepted, acceptedLate>>
    /\ UNCHANGED brokerVars

\* listener.Accept() returns connection c.  With a semaphore the loop goes
\* on to acquire a slot; without one the handler goroutine is started at
\* once.
ServerAccept(c) ==
    /\ lpc = "accept"
    /\ ~ListenerClosed
    /\ pc[c] = "listening"
    /\ IF maxConnections > 0
       THEN /\ lpc' = "sem"
            /\ accepted' = c
            /\ acceptedLate' = srvCtxDone
            /\ UNCHANGED brokerVars
       ELSE /\ Accept(c)
            /\ lpc' = "check"
            /\ UNCHANGED <<accepted, acceptedLate>>
    /\ UNCHANGED <<srvCtxDone, startRet, sdpc, srvShutdownRet>>

\* The select on the semaphore and the context: when a slot is free the
\* handler goroutine of the accepted connection is started; when the
\* context is cancelled the connection is closed and Start returns nil.
\* With both ready either may be taken.
AcquireSlot ==
    /\ lpc = "sem"
    /\ \/ /\ Accept(accepted)
          /\ lpc' = "check"
          /\ UNCHANGED startRet
       \/ /\ srvCtxDone
          /\ pc' = [pc EXCEPT ![accepted] = "refused"]
          /\ lpc' = "done"
          /\ startRet' = NoError
          /\ UNCHANGED <<rootDomain, maxConnections, registry, connSem, closed, authReq, user,
                         requested, ownerCheck, boundDomains, cleaned, resp>>
    /\ accepted' = 0
    /\ acceptedLate' = FALSE
    /\ UNCHANGED <<srvCtxDone, sdpc, srvShutdownRet>>

\* listener.Accept fails while the server is not shutting down.  A
\* temporary error is logged and the loop goes on (no state changes); a
\* permanent error is returned by Start.
AcceptError ==
    /\ lpc = "accept"
    /\ ~srvCtxDone
    /\ lpc' = "done"
    /\ startRet' = [kind |-> "error", msg |-> <<"accept">>]
    /\ UNCHANGED <<srvCtxDone, sdpc, srvShutdownRet, accepted, acceptedLate>>
    /\ UNCHANGED brokerVars

\* The loop sees the cancelled context at its top, or Accept fails (the
\* listener was closed) with the context cancelled: Start returns nil.
StartReturn ==
    /\ lpc \in {"check", "accept"}
    /\ srvCtxDone
    /\ lpc' = "done"
    /\ startRet' = NoError
    /\ UNCHANGED <<srvCtxDone, sdpc, srvShutdownRet, accepted, acceptedLate>>
    /\ UNCHANGED brokerVars

\* handleConnection panics during the handshake: the deferred recover logs
\* it, the semaphore slot is released and the goroutine ends.  Nothing
\* closes the session and no close watcher was started.
Panic(c) ==
    /\ pc[c] \in HandlerStates
    /\ Return(c, "returned")
    /\ UNCHANGED <<rootDomain, maxConnections, registry, closed, boundDomains, cleaned, resp>>

\* Server.Shutdown: s.cancel().
ServerShutdown ==
    /\ sdpc = "idle"
    /\ srvCtxDone' = TRUE
    /\ sdpc' = "cancelled"
    /\ UNCHANGED <<startRet, srvShutdownRet, lpc, accepted, acceptedLate>>
    /\ UNCHANGED brokerVars

\* Server.Shutdown: s.listener.Close().
CloseListener ==
    /\ sdpc = "cancelled"
    /\ sdpc' = "waiting"
    /\ UNCHANGED <<srvCtxDone, startRet, srvShutdownRet, lpc, accepted, acceptedLate>>
    /\ UNCHANGED brokerVars

\* Server.Shutdown: the select on wg.Wait() and the caller's context.  With
\* no handler goroutine running it returns nil; while one is running the
\* caller's deadline may pass, and it returns ctx.Err().
ShutdownWait ==
    /\ sdpc = "waiting"
    /\ sdpc' = "returned"
    /\ srvShutdownRet' =
          IF \A c \in Conns : pc[c] \notin HandlerStates
          THEN NoError
          ELSE [kind |-> "error", msg |-> <<"context deadline exceeded">>]
    /\ UNCHANGED <<srvCtxDone, startRet, lpc, accepted, acceptedLate>>
    /\ UNCHANGED brokerVars

\* The agents of one user, each sending an empty requested_domains list.
OneUserAllDomains(c) ==
    /\ authReq'[c] # Nil => authReq'[c] = [Token |-> "sk_live_12345", Force |-> FALSE]
    /\ requested'[c] \notin (RequestLists \ {<<>>})

\* The broker started without a root domain.
InitServing ==
    /\ Init
    /\ rootDomain = ""

NextServer ==
    \/ StartCheck /\ UNCHANGED exceptServer
    \/ AcquireSlot /\ UNCHANGED exceptServer
    \/ AcceptError /\ UNCHANGED exceptServer
    \/ StartReturn /\ UNCHANGED exceptServer
    \/ ServerShutdown /\ UNCHANGED exceptServer
    \/ CloseListener /\ UNCHANGED exceptServer
    \/ ShutdownWait /\ UNCHANGED exceptServer
    \/ \E c \in Conns :
        \/ ServerAccept(c) /\ UNCHANGED exceptServer
        \/ YamuxServer(c) /\ UNCHANGED exceptBroker
        \/ AcceptStream(c) /\ UNCHANGED exceptBroker
        \/ DecodeAuth(c) /\ OneUserAllDomains(c) /\ UNCHANGED exceptBroker
        \/ Auth(c) /\ UNCHANGED exceptBroker
        \/ Tunnel(c) /\ OneUserAllDomains(c) /\ UNCHANGED exceptBroker
        \/ Bind(c) /\ UNCHANGED exceptBroker
        \/ Respond(c) /\ UNCHANGED exceptBroker
        \/ Cleanup(c) /\ UNCHANGED exceptBroker
        \/ SessionClose(c) /\ UNCHANGED exceptBroker
        \/ Panic(c) /\ UNCHANGED exceptBroker

SpecServer == InitServing /\ [][NextServer]_vars

\* The same server with MaxConnections set to a small limit.
InitServingCap ==
    /\ InitCap
    /\ rootDomain = ""

SpecServerCap == InitServingCap /\ [][NextServer]_vars

\* The accept loop, the handler goroutines, the close watchers and Shutdown
\* keep running; agents close their sessions when they please, and the
\* operator decides whether Shutdown is called.
SpecServerFair ==
    /\ SpecServer
    /\ WF_vars(StartCheck /\ UNCHANGED exceptServer)
    /\ WF_vars(AcquireSlot /\ UNCHANGED exceptServer)
    /\ WF_vars(StartReturn /\ UNCHANGED exceptServer)
    /\ WF_vars(CloseListener /\ UNCHANGED exceptServer)
    /\ WF_vars(ShutdownWait /\ UNCHANGED exceptServer)
    /\ \A c \in Conns :
        /\ WF_vars(YamuxServer(c) /\ UNCHANGED exceptBroker)
        /\ WF_vars(AcceptStream(c) /\ UNCHANGED exceptBroker)
        /\ WF_vars(DecodeAuth(c) /\ OneUserAllDomains(c) /\ UNCHANGED exceptBroker)
        /\ WF_vars(Auth(c) /\ UNCHANGED exceptBroker)
        /\ WF_vars(Tunnel(c) /\ OneUserAllDomains(c) /\ UNCHANGED exceptBroker)
        /\ WF_vars(Bind(c) /\ UNCHANGED exceptBroker)
        /\ WF_vars(Respond(c) /\ UNCHANGED exceptBroker)
        /\ WF_vars(Cleanup(c) /\ UNCHANGED exceptBroker)

\* The same server with only the broker's own steps scheduled fairly.
\* session.Accept() and decoder.Decode() carry no deadline: those waits end
\* only when the peer opens a stream, sends a message or goes away, and a
\* peer may do none of these.
SpecSilentPeerFair ==
    /\ SpecServer
    /\ WF_vars(StartCheck /\ UNCHANGED exceptServer)
    /\ WF_vars(AcquireSlot /\ UNCHANGED exceptServer)
    /\ WF_vars(StartReturn /\ UNCHANGED exceptServer)
    /\ WF_vars(CloseListener /\ UNCHANGED exceptServer)
    /\ WF_vars(ShutdownWait /\ UNCHANGED exceptServer)
    /\ \A c \in Conns :
        /\ WF_vars(YamuxServer(c) /\ UNCHANGED exceptBroker)
        /\ WF_vars(Auth(c) /\ UNCHANGED exceptBroker)
        /\ WF_vars(Bind(c) /\ UNCHANGED exceptBroker)
        /\ WF_vars(Respond(c) /\ UNCHANGED exceptBroker)
        /\ WF_vars(Cleanup(c) /\ UNCHANGED exceptBroker)

\* ------------------------------------------------------- the event bus

\* b.subscribers with the element at index i removed.
RemoveAt(q, i) == SubSeq(q, 1, i - 1) \o SubSeq(q, i + 1, Len(q))

\* The indexes at which ch stands in the list.
IndexesOf(q, ch) == {i \in 1..Len(q) : q[i] = ch}

\* close(ch) on each channel of the set: closing a closed channel panics.
CloseChans(S) ==
    /\ chClosed' = chClosed \cup S
    /\ busFault' = IF S \cap chClosed # {}
                   THEN busFault \cup {"close of closed channel"}
                   ELSE busFault

\* A write lock taken without waiting for the readers.
BusLock_NoWait == TRUE

\* b.mu.Lock(): granted when no Publish holds the read lock; the calls that
\* take it run to their end before another call starts.
BusLock == rlock = {}

\* Bus.Subscribe: on a closed bus a fresh channel is closed and returned; on
\* an open bus a buffered channel is appended to the list.
Subscribe ==
    /\ BusLock
    /\ chMade # Chans
    /\ busCalls < MaxBusCalls
    /\ busCalls' = busCalls + 1
    /\ LET ch == Cardinality(chMade) + 1
       IN  /\ chMade' = chMade \cup {ch}
           /\ IF busClosed
              THEN /\ CloseChans({ch})
                   /\ lateCalls' = lateCalls \cup {"Subscribe"}
                   /\ UNCHANGED subscribers
              ELSE /\ subscribers' = Append(subscribers, ch)
                   /\ UNCHANGED <<chClosed, busFault, lateCalls>>
    /\ UNCHANGED <<bufferSize, busClosed, chBuf, received, rlock, bpc, psubs, pidx, pubCount,
                   unsubCalls, closeCalls>>

\* Bus.Unsubscribe(ch): the first element equal to ch is closed and removed;
\* a channel that is not in the list is left alone.
Unsubscribe(ch) ==
    /\ BusLock
    /\ ch \in chMade
    /\ busCalls < MaxBusCalls
    /\ busCalls' = busCalls + 1
    /\ unsubCalls' = [unsubCalls EXCEPT ![ch] = @ + 1]
    /\ lateCalls' = IF busClosed THEN lateCalls \cup {"Unsubscribe"} ELSE lateCalls
    /\ IF IndexesOf(subscribers, ch) # {}
       THEN /\ CloseChans({ch})
            /\ subscribers' = RemoveAt(subscribers,
                                       CHOOSE i \in IndexesOf(subscribers, ch) :
                                           \A j \in IndexesOf(subscribers, ch) : i <= j)
       ELSE UNCHANGED <<subscribers, chClosed, busFault>>
    /\ UNCHANGED <<bufferSize, busClosed, chMade, chBuf, received, rlock, bpc, psubs, pidx,
                   pubCount, closeCalls>>

\* A Close that closes the channels and keeps them in the list.
Close_KeepsList ==
    /\ BusLock
    /\ busCalls < MaxBusCalls
    /\ busCalls' = busCalls + 1
    /\ closeCalls' = closeCalls + 1
    /\ IF busClosed
       THEN /\ lateCalls' = lateCalls \cup {"Close"}
            /\ UNCHANGED <<busClosed, subscribers, chClosed, busFault>>
       ELSE /\ busClosed' = TRUE
            /\ CloseChans({subscribers[i] : i \in 1..Len(subscribers)})
            /\ UNCHANGED <<subscribers, lateCalls>>
    /\ UNCHANGED <<bufferSize, chMade, chBuf, received, rlock, bpc, psubs, pidx, pubCount,
                   unsubCalls>>

\* Bus.Close: a closed bus is left alone; otherwise every channel of the
\* list is closed and the list dropped.
Close ==
    /\ BusLock
    /\ busCalls < MaxBusCalls
    /\ busCalls' = busCalls + 1
    /\ closeCalls' = closeCalls + 1
    /\ IF busClosed
       THEN /\ lateCalls' = lateCalls \cup {"Close"}
            /\ UNCHANGED <<busClosed, subscribers, chClosed, busFault>>
       ELSE /\ busClosed' = TRUE
            /\ CloseChans({subscribers[i] : i \in 1..Len(subscribers)})
            /\ subscribers' = <<>>
            /\ UNCHANGED lateCalls
    /\ UNCHANGED <<bufferSize, chMade, chBuf, received, rlock, bpc, psubs, pidx, pubCount,
                   unsubCalls>>

\* A send that pushes the oldest event out of a full buffer.
ChanSend_Overwrite(q, e, size) ==
    IF Len(q) < size THEN Append(q, e) ELSE Append(Tail(q), e)

\* select { case ch <- event: default: } on an open channel: the event is
\* queued when the buffer has room and dropped otherwise.
ChanSend(q, e, size) ==
    IF Len(q) < size THEN Append(q, e) ELSE q

\* Bus.Publish up to the loop: the read lock is taken; on a closed bus the
\* call returns, otherwise the loop starts over b.subscribers as it is now.
\* The event is the publisher and the number of its publication.
PublishBegin(p) ==
    /\ bpc[p] = "idle"
    /\ busCalls < MaxBusCalls
    /\ busCalls' = busCalls + 1
    /\ pubCount' = [pubCount EXCEPT ![p] = @ + 1]
    /\ IF busClosed
       THEN /\ lateCalls' = lateCalls \cup {"Publish"}
            /\ UNCHANGED <<rlock, bpc, psubs, pidx>>
       ELSE /\ rlock' = rlock \cup {p}
            /\ bpc' = [bpc EXCEPT ![p] = "send"]
            /\ psubs' = [psubs EXCEPT ![p] = subscribers]
            /\ pidx' = [pidx EXCEPT ![p] = 1]
            /\ UNCHANGED lateCalls
    /\ UNCHANGED <<bufferSize, subscribers, busClosed, chMade, chClosed, chBuf, received,
                   busFault, unsubCalls, closeCalls>>

\* One iteration of the loop: the non-blocking send to the next channel; a
\* send on a closed channel panics.
PublishSend(p) ==
    /\ bpc[p] = "send"
    /\ pidx[p] <= Len(psubs[p])
    /\ LET ch == psubs[p][pidx[p]]
       IN  IF ch \in chClosed
           THEN /\ busFault' = busFault \cup {"send on closed channel"}
                /\ UNCHANGED chBuf
           ELSE /\ chBuf' = [chBuf EXCEPT ![ch] = ChanSend(@, <<p, pubCount[p]>>, bufferSize)]
                /\ UNCHANGED busFault
    /\ pidx' = [pidx EXCEPT ![p] = @ + 1]
    /\ UNCHANGED <<bufferSize, subscribers, busClosed, chMade, chClosed, received, rlock, bpc,
                   psubs, pubCount, unsubCalls, lateCalls, closeCalls, busCalls>>

\* The loop is over: the deferred RUnlock runs and Publish returns.
PublishEnd(p) ==
    /\ bpc[p] = "send"
    /\ pidx[p] > Len(psubs[p])
    /\ rlock' = rlock \ {p}
    /\ bpc' = [bpc EXCEPT ![p] = "idle"]
    /\ psubs' = [psubs EXCEPT ![p] = <<>>]
    /\ pidx' = [pidx EXCEPT ![p] = 0]
    /\ UNCHANGED <<bufferSize, subscribers, busClosed, chMade, chClosed, chBuf, received,
                   pubCount, busFault, unsubCalls, lateCalls, closeCalls, busCalls>>

\* The subscriber that holds ch receives the next event from it.
ChanReceive(ch) ==
    /\ chBuf[ch] # <<>>
    /\ received' = [received EXCEPT ![ch] = Append(@, Head(chBuf[ch]))]
    /\ chBuf' = [chBuf EXCEPT ![ch] = Tail(@)]
    /\ UNCHANGED <<bufferSize, subscribers, busClosed, chMade, chClosed, rlock, bpc, psubs,
                   pidx, pubCount, busFault, unsubCalls, lateCalls, closeCalls, busCalls>>

\* NewBusWithBuffer with a small buffer.
InitEventBus ==
    /\ InitBroker
    /\ InitUsers
    /\ InitIngress
    /\ bytesUsed = [u \in Users |-> 0]
    /\ InitReconnect(DefaultReconnectConfig)
    /\ InitTunnel(<<"localhost", "4443">>, "sk_live_12345")
    /\ InitStreams("nil")
    /\ InitProxy(<<>>)
    /\ InitControlPlane
    /\ rootDomain = ""
    /\ InitBus(SmallBufferSize)
    /\ InitLock
    /\ InitUpdater("", "linux", <<>>, NoSignature, "release binary")

NextBus ==
    \/ Subscribe /\ UNCHANGED exceptBus
    \/ Close /\ UNCHANGED exceptBus
    \/ \E ch \in Chans : Unsubscribe(ch) /\ UNCHANGED exceptBus
    \/ \E ch \in Chans : ChanReceive(ch) /\ UNCHANGED exceptBus
    \/ \E p \in Publishers :
        \/ PublishBegin(p) /\ UNCHANGED exceptBus
        \/ PublishSend(p) /\ UNCHANGED exceptBus
        \/ PublishEnd(p) /\ UNCHANGED exceptBus

SpecBus == InitEventBus /\ [][NextBus]_vars

\* ------------------------------------------------ the single-instance lock

\* readLockFile of a lock file that holds pid; NoFile stands for the error
\* it returns when there is no file.
readLockFile == lockFile

\* isProcessRunning(pid): signal 0 reaches a process that has started and
\* has not exited.
isProcessRunning(pid) == pid \in Procs /\ lkpc[pid] \notin {"off", "exited"}

\* A client process starts; it calls AcquireLock first.
StartProcess(p) ==
    /\ lkpc[p] = "off"
    /\ lkpc' = [lkpc EXCEPT ![p] = "start"]
    /\ UNCHANGED <<lockFile, lkInfo>>

\* AcquireLock: readLockFile.  With no lock file the call goes on to write
\* one; otherwise it goes on to look at the recorded PID.
AcquireRead(p) ==
    /\ lkpc[p] = "start"
    /\ IF readLockFile = NoFile
       THEN /\ lkpc' = [lkpc EXCEPT ![p] = "write"]
            /\ UNCHANGED lkInfo
       ELSE /\ lkpc' = [lkpc EXCEPT ![p] = "check"]
            /\ lkInfo' = [lkInfo EXCEPT ![p] = readLockFile]
    /\ UNCHANGED lockFile

\* AcquireLock: isProcessRunning(info.PID).  A running holder makes the call
\* return ErrAlreadyRunning; a stale file is to be removed.
AcquireCheck(p) ==
    /\ lkpc[p] = "check"
    /\ lkpc' = [lkpc EXCEPT ![p] = IF isProcessRunning(lkInfo[p]) THEN "refused" ELSE "remove"]
    /\ UNCHANGED <<lockFile, lkInfo>>

\* AcquireLock: os.Remove(lockPath) removes the file that is there now.
AcquireRemove(p) ==
    /\ lkpc[p] = "remove"
    /\ lockFile' = NoFile
    /\ lkpc' = [lkpc EXCEPT ![p] = "write"]
    /\ UNCHANGED lkInfo

\* writeLockFile: os.WriteFile creates or overwrites the file with the
\* caller's PID.
writeLockFile(p) == p

\* AcquireLock: writeLockFile, and the call returns nil.
AcquireWrite(p) ==
    /\ lkpc[p] = "write"
    /\ lockFile' = writeLockFile(p)
    /\ lkpc' = [lkpc EXCEPT ![p] = "held"]
    /\ UNCHANGED lkInfo

\* ReleaseLock: readLockFile and the comparison with os.Getpid().  The
\* file of another PID, or no file, makes the call return nil.
ReleaseRead(p) ==
    /\ lkpc[p] = "held"
    /\ lkpc' = [lkpc EXCEPT ![p] = IF readLockFile = p THEN "release" ELSE "released"]
    /\ UNCHANGED <<lockFile, lkInfo>>

\* ReleaseLock: os.Remove(lockPath) removes the file that is there now.
ReleaseRemove(p) ==
    /\ lkpc[p] = "release"
    /\ lockFile' = NoFile
    /\ lkpc' = [lkpc EXCEPT ![p] = "released"]
    /\ UNCHANGED lkInfo

\* The process ends, at any point and without another call: after a
\* refusal or a release, or killed with the lock file left behind.
ExitProcess(p) ==
    /\ lkpc[p] \notin {"off", "exited"}
    /\ lkpc' = [lkpc EXCEPT ![p] = "exited"]
    /\ UNCHANGED <<lockFile, lkInfo>>

\* No client has started and there is no lock file.
InitLockFile ==
    /\ InitBroker
    /\ InitUsers
    /\ InitIngress
    /\ bytesUsed = [u \in Users |-> 0]
    /\ InitReconnect(DefaultReconnectConfig)
    /\ InitTunnel(<<"localhost", "4443">>, "sk_live_12345")
    /\ InitStreams("nil")
    /\ InitProxy(<<>>)
    /\ InitControlPlane
    /\ rootDomain = ""
    /\ InitBus(DefaultBufferSize)
    /\ InitLock
    /\ InitUpdater("", "linux", <<>>, NoSignature, "release binary")

NextLock ==
    \E p \in Procs :
        \/ StartProcess(p) /\ UNCHANGED exceptLock
        \/ AcquireRead(p) /\ UNCHANGED exceptLock
        \/ AcquireCheck(p) /\ UNCHANGED exceptLock
        \/ AcquireRemove(p) /\ UNCHANGED exceptLock
        \/ AcquireWrite(p) /\ UNCHANGED exceptLock
        \/ ReleaseRead(p) /\ UNCHANGED exceptLock
        \/ ReleaseRemove(p) /\ UNCHANGED exceptLock
        \/ ExitProcess(p) /\ UNCHANGED exceptLock

SpecLock == InitLockFile /\ [][NextLock]_vars

\* ------------------------------------------------------ the client updater

\* parseChecksum: the first field of the first line that has at least two
\* fields and whose last field is filename; an error when no line is such.
RECURSIVE parseChecksum(_, _)
parseChecksum(data, filename) ==
    IF data = <<>>
    THEN [err |-> TRUE, hash |-> ""]
    ELSE LET parts == Head(data)
         IN  IF Len(parts) >= 2 /\ parts[Len(parts)] = filename
             THEN [err |-> FALSE, hash |-> parts[1]]
             ELSE parseChecksum(Tail(data), filename)

\* PerformUpdate returns (nil, fmt.Errorf(m)).
UpdateError(m) == [result |-> Nil, err |-> [kind |-> "error", msg |-> <<m>>]]

UpdateFailed(m) ==
    /\ updRet' = UpdateError(m)
    /\ upc' = "done"

\* downloadFile returned an error after its attempts.
DownloadFailed(m) ==
    /\ UpdateFailed(m)
    /\ dlFailed' = TRUE

\* PerformUpdate up to the public key: PublicKeyBase64 must be set, decode
\* and have the size of an ed25519 public key.
CheckPublicKey ==
    /\ upc = "key"
    /\ IF PublicKeyBase64 = ""
       THEN UpdateFailed("update verification not configured (no public key)") /\ UNCHANGED pubKey
       ELSE IF DecodeString(PublicKeyBase64).err
       THEN UpdateFailed("invalid public key") /\ UNCHANGED pubKey
       ELSE IF DecodeString(PublicKeyBase64).size # Ed25519PublicKeySize
       THEN UpdateFailed("invalid public key size") /\ UNCHANGED pubKey
       ELSE /\ pubKey' = DecodeString(PublicKeyBase64)
            /\ upc' = "checksums"
            /\ UNCHANGED updRet
    /\ UNCHANGED <<PublicKeyBase64, goos, srvChecksums, srvSignature, srvBinary, checksums,
                   signature, expectedHash, binaryData, executable, staged, dlFailed>>

\* downloadFile(baseURL + "checksums.txt").
DownloadChecksums ==
    /\ upc = "checksums"
    /\ \/ DownloadFailed("failed to download checksums") /\ UNCHANGED checksums
       \/ /\ checksums' = srvChecksums
          /\ upc' = "signature"
          /\ UNCHANGED <<updRet, dlFailed>>
    /\ UNCHANGED <<PublicKeyBase64, goos, srvChecksums, srvSignature, srvBinary, pubKey,
                   signature, expectedHash, binaryData, executable, staged>>

\* downloadFile(baseURL + "checksums.sig").
DownloadSignature ==
    /\ upc = "signature"
    /\ \/ DownloadFailed("failed to download signature") /\ UNCHANGED signature
       \/ /\ signature' = srvSignature
          /\ upc' = "verify"
          /\ UNCHANGED <<updRet, dlFailed>>
    /\ UNCHANGED <<PublicKeyBase64, goos, srvChecksums, srvSignature, srvBinary, pubKey,
                   checksums, expectedHash, binaryData, executable, staged>>

\* ed25519.Verify(pubKey, checksums, signature).
VerifySignature ==
    /\ upc = "verify"
    /\ IF ~Ed25519Verify(pubKey, checksums, signature)
       THEN UpdateFailed("signature verification failed - update rejected")
       ELSE upc' = "parse" /\ UNCHANGED updRet
    /\ UNCHANGED <<PublicKeyBase64, goos, srvChecksums, srvSignature, srvBinary, pubKey,
                   checksums, signature, expectedHash, binaryData, executable, staged, dlFailed>>

\* parseChecksum(checksums, info.AssetName).
ParseChecksum ==
    /\ upc = "parse"
    /\ IF parseChecksum(checksums, getAssetName(goos)).err
       THEN UpdateFailed("failed to parse checksum") /\ UNCHANGED expectedHash
       ELSE /\ expectedHash' = parseChecksum(checksums, getAssetName(goos)).hash
            /\ upc' = "binary"
            /\ UNCHANGED updRet
    /\ UNCHANGED <<PublicKeyBase64, goos, srvChecksums, srvSignature, srvBinary, pubKey,
                   checksums, signature, binaryData, executable, staged, dlFailed>>

\* downloadFile(info.DownloadURL).
DownloadBinary ==
    /\ upc = "binary"
    /\ \/ DownloadFailed("failed to download binary") /\ UNCHANGED binaryData
       \/ /\ binaryData' = srvBinary
          /\ upc' = "hash"
          /\ UNCHANGED <<updRet, dlFailed>>
    /\ UNCHANGED <<PublicKeyBase64, goos, srvChecksums, srvSignature, srvBinary, pubKey,
                   checksums, signature, expectedHash, executable, staged>>

\* A step that goes on to install whatever was downloaded.
VerifyChecksum_NoCompare ==
    /\ upc = "hash"
    /\ upc' = "install"
    /\ UNCHANGED <<PublicKeyBase64, goos, srvChecksums, srvSignature, srvBinary, pubKey,
                   checksums, signature, expectedHash, binaryData, executable, staged, updRet,
                   dlFailed>>

\* The hex SHA-256 of the downloaded binary is compared with the expected
\* hash.
VerifyChecksum ==
    /\ upc = "hash"
    /\ IF Sha256Hex(binaryData) # expectedHash
       THEN UpdateFailed("checksum mismatch")
       ELSE upc' = "install" /\ UNCHANGED updRet
    /\ UNCHANGED <<PublicKeyBase64, goos, srvChecksums, srvSignature, srvBinary, pubKey,
                   checksums, signature, expectedHash, binaryData, executable, staged, dlFailed>>

\* installUnix: the data goes to a temporary file that is renamed over the
\* executable.  os.Executable, EvalSymlinks, the temporary file or the
\* rename may fail; the temporary file is then removed.
InstallUnix ==
    /\ upc = "install"
    /\ goos # "windows"
    /\ \/ UpdateFailed("failed to install update") /\ UNCHANGED executable
       \/ /\ executable' = binaryData
          /\ updRet' = [result |-> [Success |-> TRUE, NeedsRestart |-> TRUE,
                                    PendingUpdate |-> FALSE],
                        err |-> NoError]
          /\ upc' = "done"
    /\ UNCHANGED <<PublicKeyBase64, goos, srvChecksums, srvSignature, srvBinary, pubKey,
                   checksums, signature, expectedHash, binaryData, staged, dlFailed>>

\* installWindows: the data is written next to the executable as .new with
\* a batch script that moves it; when a write fails nothing is left staged.
InstallWindows ==
    /\ upc = "install"
    /\ goos = "windows"
    /\ \/ UpdateFailed("failed to write update") /\ UNCHANGED staged
       \/ /\ staged' = binaryData
          /\ updRet' = [result |-> [Success |-> TRUE, NeedsRestart |-> TRUE,
                                    PendingUpdate |-> TRUE],
                        err |-> NoError]
          /\ upc' = "done"
    /\ UNCHANGED <<PublicKeyBase64, goos, srvChecksums, srvSignature, srvBinary, pubKey,
                   checksums, signature, expectedHash, binaryData, executable, dlFailed>>

\* PerformUpdate is called in a client built with any of the keys, on any
\* platform, against a release whose files hold anything.
InitUpdate ==
    /\ InitBroker
    /\ InitUsers
    /\ InitIngress
    /\ bytesUsed = [u \in Users |-> 0]
    /\ InitReconnect(DefaultReconnectConfig)
    /\ InitTunnel(<<"localhost", "4443">>, "sk_live_12345")
    /\ InitStreams("nil")
    /\ InitProxy(<<>>)
    /\ InitControlPlane
    /\ rootDomain = ""
    /\ InitBus(DefaultBufferSize)
    /\ InitLock
    /\ \E k \in PublicKeys, g \in Platforms, f \in ChecksumFiles, b \in Binaries :
          \E s \in Signatures(f) : InitUpdater(k, g, f, s, b)

NextUpdate ==
    \/ CheckPublicKey /\ UNCHANGED exceptUpdate
    \/ DownloadChecksums /\ UNCHANGED exceptUpdate
    \/ DownloadSignature /\ UNCHANGED exceptUpdate
    \/ VerifySignature /\ UNCHANGED exceptUpdate
    \/ ParseChecksum /\ UNCHANGED exceptUpdate
    \/ DownloadBinary /\ UNCHANGED exceptUpdate
    \/ VerifyChecksum /\ UNCHANGED exceptUpdate
    \/ InstallUnix /\ UNCHANGED exceptUpdate
    \/ InstallWindows /\ UNCHANGED exceptUpdate

SpecUpdate == InitUpdate /\ [][NextUpdate]_vars

\* ---------------------------------------------------------------- claims

\* C1: after any sequence of Register and Unregister calls the user-session
\* registry holds at most one session per user_id; Register(u, s2) leaves
\* exactly the new session for u, leaves the other users' sessions alone and
\* returns the session u had before the call (nil when u had none).
C1_SingleSessionPerUser ==
    /\ \A u \in Users : Cardinality({e \in userSessions : e.UserID = u}) <= 1
    /\ (lastCall # Nil /\ lastCall.op = "Register") =>
          LET u == lastCall.userID
              had == {e \in lastCall.before : e.UserID = u}
              new == [UserID |-> u, Session |-> lastCall.session,
                      Domains |-> lastCall.domains]
          IN  /\ {e \in userSessions : e.UserID = u} = {new}
              /\ {e \in userSessions : e.UserID # u} =
                    {e \in lastCall.before : e.UserID # u}
              /\ IF had = {} THEN lastCall.ret = Nil ELSE had = {lastCall.ret}

\* C1 witness: a Register call replaced a different session of the same user
\* and returned it.
C1_Witness ==
    /\ lastCall # Nil
    /\ lastCall.op = "Register"
    /\ lastCall.ret # Nil
    /\ lastCall.ret.Session # lastCall.session
    /\ lastCall.ret \in lastCall.before

\* ------------------------------------------------ what the claims speak of

\* Session c completed its handshake: the success response was encoded and
\* the close watcher runs.
Completed(c) == pc[c] \in {"watching", "ended"}

\* The hostnames that a lookup resolves to session c.
HeldBy(sessions, c) == {h \in DOMAIN sessions : sessions[h].Session = c}

\* The elements of a sequence.
Range(q) == {q[i] : i \in 1..Len(q)}

\* User u owns the name that hostname h was built from, by the domains table.
OwnedHostname(h, u) ==
    \E i \in 1..Len(DomainTable) :
        /\ DomainTable[i].UserID = u
        /\ h = (IF rootDomain # "" THEN <<DomainTable[i].Name, rootDomain>>
                ELSE <<DomainTable[i].Name>>)

\* Another session of the same user completed its handshake and is alive.
LiveSessionOfUser(u, except) ==
    \E d \in Conns \ {except} : pc[d] = "watching" /\ ~closed[d] /\ user[d] = u

\* C2: while a session that completed its handshake is alive, every
\* hostname it bound resolves in the registry to that session.
C2_BoundHostnamesResolve ==
    \A c \in Conns :
        (pc[c] = "watching" /\ ~closed[c]) =>
            \A h \in Range(boundDomains[c]) : GetSession(registry, h) = c

\* C3: a lookup of any hostname never returns a session whose close signal
\* has already fired.
C3_NoClosedSessionResolved ==
    \A h \in DOMAIN registry : ~closed[GetSession(registry, h)]

\* C3 as amended: a lookup returns a session whose close signal has fired
\* only while that session's handler is still in its bind loop or its close
\* watcher has not yet unregistered that hostname.
C3_ClosedOnlyUntilCleanup ==
    \A h \in DOMAIN registry :
        LET c == GetSession(registry, h)
        IN  closed[c] =>
              \/ pc[c] = "bind"
              \/ /\ pc[c] = "watching"
                 /\ \E i \in (cleaned[c] + 1)..Len(boundDomains[c]) :
                        boundDomains[c][i] = h

\* C3 witness: the close watcher of a closed session has unregistered one of
\* its two hostnames and a lookup of the other still returns the session.
C3_Witness ==
    \E c \in Conns :
        /\ pc[c] = "watching"
        /\ closed[c]
        /\ cleaned[c] = 1
        /\ GetSession(registry, boundDomains[c][2]) = c
        /\ GetSession(registry, boundDomains[c][1]) = 0

\* C4: when a handshake with force=true makes a hostname resolve to its new
\* session, every session the user had registered before is closed by then:
\* no lookup resolves to the new session while the old one is open.
C4_ForceEvictsBeforeLookup ==
    [][\A c \in Conns :
          (/\ pc[c] = "bind"
           /\ authReq[c].Force
           /\ HeldBy(registry', c) # HeldBy(registry, c)
           /\ HeldBy(registry', c) # {})
          => \A d \in Conns \ {c} :
                (pc[d] = "watching" /\ user[d] = user[c]) => closed'[d]]_vars

\* C5: a handshake with force=false whose token is the token of a user with
\* a live registered session is answered success=false, already_connected;
\* the new connection is closed, nothing is registered for it and the
\* existing session stays registered and open.
C5_AlreadyConnectedRejected ==
    [][\A c \in Conns :
          (/\ pc[c] = "validateToken"
           /\ ~authReq[c].Force
           /\ \E i \in 1..Len(TokenTable) :
                 /\ TokenTable[i].TokenString = authReq[c].Token
                 /\ LiveSessionOfUser(TokenTable[i].UserID, c)
           /\ pc'[c] # "validateToken")
          => /\ resp'[c] # Nil
             /\ resp'[c].Success = FALSE
             /\ resp'[c].ErrorCode = ErrorCodeAlreadyConnected
             /\ closed'[c]
             /\ pc'[c] = "returned"
             /\ registry' = registry
             /\ \A d \in Conns \ {c} : closed'[d] = closed[d]]_vars

\* C6: the hostnames of one handshake are inserted in one critical section:
\* once a lookup resolves some hostname to a session, no further hostname
\* starts to resolve to it.
C6_AtomicRegistration ==
    [][\A c \in Conns :
          HeldBy(registry, c) # {} => HeldBy(registry', c) \subseteq HeldBy(registry, c)]_vars

\* C7: when the success response is sent, its bound_domains are hostnames
\* name.root (name alone without a root domain) of the requested names, each
\* resolves to the new session, and no other hostname resolves to it.
C7_BoundDomainsAreRegistered ==
    [][\A c \in Conns :
          (pc[c] = "bind" /\ pc'[c] = "watching")
          => /\ resp'[c].Success
             /\ Range(resp'[c].BoundDomains) = HeldBy(registry', c)
             /\ \A h \in Range(resp'[c].BoundDomains) :
                   /\ GetSession(registry', h) = c
                   /\ \E n \in Names :
                         h = (IF rootDomain # "" THEN <<n, rootDomain>> ELSE <<n>>)]_vars

\* C8: every hostname in the registry, and every hostname in a handler's
\* boundDomains and in the bound_domains it sends, is built from a name that
\* the domains table gives to the session's authenticated user; a loop
\* iteration whose ownership check failed or errored registers nothing and
\* adds nothing to boundDomains.
C8_OnlyOwnedHostnames ==
    /\ [](/\ \A h \in DOMAIN registry :
                OwnedHostname(h, user[GetSession(registry, h)])
          /\ \A c \in Conns :
                /\ \A h \in Range(boundDomains[c]) : OwnedHostname(h, user[c])
                /\ (pc[c] = "watching" /\ resp[c] # Nil) =>
                      \A h \in Range(resp[c].BoundDomains) : OwnedHostname(h, user[c]))
    /\ [][\A c \in Conns :
            (/\ pc[c] = "bind"
             /\ ownerCheck'[c] # ownerCheck[c] \/ requested'[c] # requested[c]
             /\ ownerCheck'[c] # Nil
             /\ ownerCheck'[c].err \/ ~ownerCheck'[c].isOwner)
            => /\ registry' = registry
               /\ boundDomains'[c] = boundDomains[c]]_vars

\* C8 witness: a handler that was asked for a name of another user and for a
\* name of its own user bound only its own.
C8_Witness ==
    \E c \in Conns :
        /\ pc[c] = "watching"
        /\ user[c] = 1
        /\ resp[c] # Nil
        /\ resp[c].BoundDomains = <<RegName("silent-star", rootDomain)>>
        /\ GetSession(registry, RegName("silent-star", rootDomain)) = c
        /\ GetSession(registry, RegName("bold-eagle", rootDomain)) = 0

\* C9: a token that resolves to no user is answered success=false with
\* error_code invalid_token; the session is closed and the registry is left
\* as it was.
C9_InvalidToken ==
    [][\A c \in Conns :
          (/\ pc[c] = "validateToken"
           /\ \A i \in 1..Len(TokenTable) : TokenTable[i].TokenString # authReq[c].Token
           /\ pc'[c] # "validateToken")
          => /\ resp'[c] # Nil
             /\ resp'[c].Success = FALSE
             /\ resp'[c].ErrorCode = ErrorCodeInvalidToken
             /\ closed'[c]
             /\ pc'[c] = "returned"
             /\ registry' = registry]_vars

\* C10: when no requested hostname survives the ownership filter, the
\* handshake is answered success=false with error_code no_domains, the
\* session is closed and the handshake has left the registry as it was.
C10_NoDomains ==
    /\ [](\A c \in Conns :
            (pc[c] = "bind" /\ boundDomains[c] = <<>>) => HeldBy(registry, c) = {})
    /\ [][\A c \in Conns :
            (pc[c] = "bind" /\ requested[c] = <<>> /\ boundDomains[c] = <<>>
             /\ pc'[c] # "bind")
            => /\ resp'[c] # Nil
               /\ resp'[c].Success = FALSE
               /\ resp'[c].ErrorCode = ErrorCodeNoDomains
               /\ closed'[c]
               /\ pc'[c] = "returned"
               /\ registry' = registry]_vars

\* The accepted sessions that are alive: yamux.Server returned a session and
\* its close signal has not fired.
AliveSessions ==
    {c \in Conns : /\ pc[c] \in {"acceptStream", "decodeAuth", "validateToken",
                                  "decodeTunnel", "bind", "watching"}
                   /\ ~closed[c]}

\* C13: with a limit set, the number of accepted sessions that are alive
\* never exceeds Server.MaxConnections.
C13_SessionCap ==
    maxConnections > 0 => Cardinality(AliveSessions) <= maxConnections

\* C14: once the close signal of a session that completed its handshake has
\* fired, eventually no hostname of the registry resolves to that session.
C14_UnregisterOnClose ==
    \A c \in Conns :
        (pc[c] = "watching" /\ closed[c]) ~> (HeldBy(registry, c) = {})

\* C14 witness: the close watcher of a closed session that had bound two
\* hostnames has ended and neither hostname resolves to the session.
C14_Witness ==
    \E c \in Conns :
        /\ pc[c] = "ended"
        /\ closed[c]
        /\ resp[c] # Nil
        /\ Len(resp[c].BoundDomains) = 2
        /\ HeldBy(registry, c) = {}

\* The part of a Host header before its port: the longest prefix without ":".
HostPart(header) ==
    CHOOSE p \in {SubSeq(header, 1, k) : k \in 0..Len(header)} :
        /\ ":" \notin Range(p)
        /\ Len(p) = Len(header) \/ header[Len(p) + 1] = ":"

\* The host is the root domain (landing page) or app.<root> (dashboard).
OwnPage(h) == rootDomain # "" /\ (h = <<rootDomain>> \/ h = <<"app", rootDomain>>)

\* C15: a request whose host, the port stripped, is neither the root domain
\* nor app.<root> and is not in the registry is answered 404 with a body
\* that names the host, and the handler returns without opening a stream.
C15_UnknownHost404 ==
    [][(/\ ipc = "route"
        /\ ipc' # "route"
        /\ ~OwnPage(HostPart(reqHost))
        /\ HostPart(reqHost) \notin DOMAIN registry)
       => /\ status' = 404
          /\ body' = <<"Tunnel not found for host: ", HostPart(reqHost)>>
          /\ ipc' = "serve"
          /\ reqSession' = 0
          /\ stream' = "none"
          /\ ~written']_vars

\* C15 witness: a request for an unknown host with a port was answered 404
\* naming the host without the port, and no stream was opened.
C15_Witness ==
    /\ ipc = "serve"
    /\ reqHost = <<"nope", "example.com", ":", "8080">>
    /\ status = 404
    /\ body = <<"Tunnel not found for host: ", <<"nope", "example.com">>>>
    /\ stream = "none"

\* C16: when the host resolves and session.Open() fails (as it does on a
\* closed session), the answer is 502, no request bytes are written and the
\* registry is left alone; a stream the handler opened is closed when the
\* handler has returned, and the handler never changes the registry.
C16_OpenFailure502 ==
    /\ [](ipc = "serve" => stream # "open")
    /\ [][(ipc = "open" /\ ipc' # "open")
          => /\ closed[reqSession] => ipc' = "serve"
             /\ ipc' = "serve" => /\ status' = 502
                                  /\ ~written'
                                  /\ stream' = "none"
                                  /\ registry' = registry]_vars
    /\ [][ipc' # ipc => registry' = registry]_vars

\* C16 witness: the host still resolves to a session that has closed, Open
\* failed and the request was answered 502 with nothing written.
C16_Witness ==
    /\ ipc = "serve"
    /\ status = 502
    /\ reqSession # 0
    /\ closed[reqSession]
    /\ GetSession(registry, host) = reqSession
    /\ stream = "none"
    /\ ~written

\* C17: the bandwidth ledger of each user never decreases, and for a host
\* whose registry entry is not bandwidth-exempt and whose user has used the
\* daily limit or more, the dispatcher answers 509 or 429 and opens no stream.
C17_BandwidthAdmission ==
    /\ [][\A u \in Users : bytesUsed'[u] >= bytesUsed[u]]_vars
    /\ [][LET e == GetEntry(registry, HostPart(reqHost))
          IN  (/\ ipc = "route"
               /\ ipc' # "route"
               /\ e # Nil
               /\ ~e.BandwidthExempt
               /\ DailyBandwidthLimit > 0
               /\ bytesUsed[e.UserID] >= DailyBandwidthLimit)
              => /\ status' \in {509, 429}
                 /\ ipc' = "serve"
                 /\ stream' = "none"]_vars

C19_AlreadyConnectedFatal ==
    /\ [][(rpc = "start" /\ rpc' # "start" /\ startErr'.kind = "AlreadyConnectedError")
          => /\ rpc' = "stopped"
             /\ retErr' = startErr'
             /\ waits' = waits]_vars
    /\ [][rpc = "stopped" => rpc' = "stopped" /\ starts' = starts /\ waits' = waits]_vars

\* C19 witness: after two failed attempts the third failed with an
\* AlreadyConnectedError and StartWithReconnect returned it.
C19_Witness ==
    /\ rpc = "stopped"
    /\ retErr # Nil
    /\ retErr.kind = "AlreadyConnectedError"
    /\ starts = 3
    /\ Len(waits) = 2

\* C20: when the handshake is rejected because the token is invalid,
\* StartWithReconnect stops and returns the error; it makes no further
\* connection attempt.
C20_BadTokenFatal ==
    [][(/\ rpc = "start"
        /\ rpc' # "start"
        /\ startErr' = ServerError(sendError("Invalid Token")))
       => /\ rpc' = "stopped"
          /\ retErr' = startErr']_vars

\* The names the domains table gives to user u.
OwnedNames(u) == {DomainTable[i].Name : i \in {k \in 1..Len(DomainTable) : DomainTable[k].UserID = u}}

\* The hostnames under which the names of user u are registered.
OwnedHostnames(u) == {RegName(n, rootDomain) : n \in OwnedNames(u)}

\* The broker decodes the agent's TunnelRequest in this step and goes on to
\* the bind loop.
DecodesEmptyRequest ==
    /\ pc[1] = "decodeTunnel"
    /\ pc'[1] = "bind"
    /\ toBroker # <<>>
    /\ Head(toBroker).type = "TunnelRequest"
    /\ Head(toBroker).RequestedDomains = <<>>

\* One iteration of the bind loop of connection 1 runs in this step.
BindStep == pc[1] = "bind" /\ requested[1] # <<>> /\ requested'[1] = Tail(requested[1])

\* C11: a handshake that sent an empty requested_domains list and succeeded
\* bound exactly the hostnames of all the domains the authenticated user
\* owns.
C11_EmptyBindsExactlyAll ==
    pc[1] = "watching" => Range(boundDomains[1]) = OwnedHostnames(user[1])

\* C11 as amended: the agent's TunnelRequest always carries the empty list;
\* the broker replaces an empty list by all the names the user owns; every
\* iteration of the bind loop whose ownership check does not fail registers
\* the owned name for the session and appends it to the bound domains, so an
\* empty list is treated name by name as the explicit list of the owned
\* names; the success response reports the bound hostnames, all of them
\* owned by the user.
C11_EmptyBindsAllChecked ==
    /\ [](\A i \in 1..Len(toBroker) :
            toBroker[i].type = "TunnelRequest" => toBroker[i].RequestedDomains = <<>>)
    /\ [][DecodesEmptyRequest => Range(requested'[1]) = OwnedNames(user[1])]_vars
    /\ [][(BindStep /\ ~ownerCheck'[1].err /\ Head(requested[1]) \in OwnedNames(user[1]))
          => /\ boundDomains'[1] = Append(boundDomains[1], RegName(Head(requested[1]), rootDomain))
             /\ GetSession(registry', RegName(Head(requested[1]), rootDomain)) = 1]_vars
    /\ [][(BindStep /\ ownerCheck'[1].err)
          => boundDomains'[1] = boundDomains[1] /\ registry' = registry]_vars
    /\ [](pc[1] = "watching" =>
            /\ resp[1].Success
            /\ resp[1].BoundDomains = boundDomains[1]
            /\ boundDomains[1] # <<>>
            /\ Range(boundDomains[1]) \subseteq OwnedHostnames(user[1]))

\* C11 witness: the agent of user 1 sent the empty list and the handshake
\* succeeded with both of its domains bound.
C11_Witness ==
    /\ pc[1] = "watching"
    /\ streamLog = <<"AuthRequest", "TunnelRequest", "InitResponse">>
    /\ user[1] = 1
    /\ Len(boundDomains[1]) = 2
    /\ Range(boundDomains[1]) = OwnedHostnames(1)
    /\ \A h \in OwnedHostnames(1) : GetSession(registry, h) = 1

\* The orders in which messages can have been written on the handshake
\* stream.
HandshakeOrders ==
    { <<>>,
      <<"AuthRequest">>,
      <<"AuthRequest", "TunnelRequest">>,
      <<"AuthRequest", "TunnelRequest", "InitResponse">>,
      <<"AuthRequest", "InitResponse">>,
      <<"AuthRequest", "InitResponse", "TunnelRequest">> }

\* The broker encodes an InitResponse in this step.
SendsInitResponse == resp'[1] # resp[1]

\* C12: the messages written on the first stream of a session are, in
\* order, AuthRequest, TunnelRequest, InitResponse: at every moment a prefix
\* of these three.
C12_ThreeMessagesInOrder ==
    \E n \in 0..3 :
        streamLog = SubSeq(<<"AuthRequest", "TunnelRequest", "InitResponse">>, 1, n)

\* C12 as amended: the agent writes AuthRequest and then TunnelRequest, and
\* the broker writes at most one InitResponse, after the AuthRequest; an
\* InitResponse with success=true is written only after both requests were
\* decoded and is then the third message, while an InitResponse with
\* success=false may precede the TunnelRequest; the agent accepts proxy
\* streams only after it has read an InitResponse with success=true.
C12_HandshakeOrder ==
    /\ [](streamLog \in HandshakeOrders)
    /\ [][(SendsInitResponse /\ resp'[1].Success)
          => /\ pc[1] = "bind"
             /\ authReq[1] # Nil
             /\ toBroker = <<>>
             /\ streamLog = <<"AuthRequest", "TunnelRequest">>]_vars
    /\ [][SendsInitResponse => resp[1] = Nil]_vars
    /\ [](apc = "accepting" =>
            /\ agentResp # Nil
            /\ agentResp = resp[1]
            /\ agentResp.Success
            /\ streamLog = <<"AuthRequest", "TunnelRequest", "InitResponse">>)

\* C12 witness: the three messages travelled in order and the agent, having
\* read the success response, accepts proxy streams.
C12_Witness ==
    /\ apc = "accepting"
    /\ handshake = "closed"
    /\ agentResp # Nil
    /\ agentResp.Success
    /\ toAgent = <<>>
    /\ toBroker = <<>>
    /\ streamLog = <<"AuthRequest", "TunnelRequest", "InitResponse">>

ContextCanceled == [kind |-> "error", msg |-> <<"context canceled">>]

\* The loop commits to a connection attempt in this step: it passes the
\* context check of a first attempt or its wait elapses.
AttemptBegins == rpc # "start" /\ rpc' = "start"

C23_NoPlaintextDowngrade ==
    transport = "plain" => IsLocal(serverAddr)

\* C24: when Shutdown has returned, every connection that was tracked when
\* it was called is closed; Shutdown returns no error, on a tunnel that was
\* never started and on a tunnel that was shut down before as well.
C24_ShutdownClosesTracked ==
    /\ spc = "returned" => (tracked \subseteq connClosed /\ shutdownRet = NoError)
    /\ shutdownRet \in {Nil, NoError}
    /\ (spc = "returned" /\ tsession # "nil") => tsession = "closed"

\* C24 witness: a second Shutdown returned nil on a started tunnel whose two
\* tracked connections the first one had closed.
C24_Witness ==
    /\ spc = "returned"
    /\ shutdowns = 2
    /\ shutdownRet = NoError
    /\ tsession = "closed"
    /\ Cardinality(tracked) >= 2
    /\ tracked \subseteq connClosed

\* C25: the active-connections set is exactly the set of the connections
\* tracked and not yet untracked, under every interleaving of the workers.
C25_ActiveSetExact ==
    activeConns = {w \in Workers : wpc[w] \in {"tracked", "untrackStore"}}

\* C25 witness: all workers tracked their connection concurrently and the
\* set holds all of them.
C25_Witness ==
    /\ \A w \in Workers : wpc[w] = "tracked"
    /\ Cardinality(activeConns) = MaxStreams
    /\ mu = {}

\* C26: when the worker could not dial the loopback service, it has written
\* a 502 response on the stream before it closed it, and the session is
\* still open.
C26_DialFailure502 ==
    (ppc = "done" /\ dialFailed) =>
        /\ remoteOut = <<"HTTP/1.1 502 Bad Gateway">>
        /\ remoteClosed
        /\ tsession = "open"

\* C27: in the opaque copy, once the broker or the loopback service has
\* closed its end, the copy ends in both directions and both connections
\* are closed.
C27_ClosurePropagates ==
    (ppc = "copy" /\ (remoteEOF \/ localEOF))
        ~> (ppc = "done" /\ acopy = "done" /\ remoteClosed /\ localClosed)

\* C28: on the fallback path the loopback service receives the bytes the
\* broker wrote on the stream, from the first one on and in order: what it
\* has received is at every moment a prefix of what was written.
C28_FallbackFidelity ==
    acopy # "none" => \E n \in 0..Len(sent) : localIn = SubSeq(sent, 1, n)

\* Session d completed its handshake and its close signal has not fired.
SessionLive(d) == pc[d] = "watching" /\ ~closed[d]

\* The step is a failure of connection c: its handler returns without a
\* success response (an error or a recovered panic), its session closes, or
\* its close watcher cleans up after the close.
FailureStep(c) ==
    \/ pc[c] \in HandlerStates /\ pc'[c] = "returned"
    \/ ~closed[c] /\ closed'[c]
    \/ closed[c] /\ pc[c] = "watching" /\ (cleaned'[c] # cleaned[c] \/ pc'[c] = "ended")

\* C29: a failure of one session closes no other session, removes no
\* hostname of another live session from the registry and does not end the
\* accept loop; Start returns an error only on a permanent accept error.
C29_FailureIsolation ==
    [][ /\ \A c \in Conns :
             FailureStep(c) =>
                 /\ startRet' = startRet
                 /\ \A d \in Conns \ {c} :
                      /\ closed'[d] = closed[d]
                      /\ SessionLive(d) => HeldBy(registry, d) \subseteq DOMAIN registry'
        /\ (startRet' # startRet /\ startRet' # NoError) => AcceptError
      ]_vars

\* C30: once Shutdown has been called, eventually Start has returned, no
\* session is alive and the registry holds no hostname.
C30_ShutdownDropsSessions ==
    (sdpc # "idle")
        ~> (/\ startRet # Nil
            /\ \A c \in Conns : ~SessionLive(c)
            /\ DOMAIN registry = {})

\* C31: a handler that waits for the peer's first stream or first handshake
\* message eventually stops waiting: it returns and its semaphore slot is
\* free again, whatever the peer does.
C31_HandshakeTimeout ==
    \A c \in Conns :
        (pc[c] \in {"acceptStream", "decodeAuth"})
            ~> (pc[c] \notin {"acceptStream", "decodeAuth"})

\* C32: IsConnected(u) is true whenever a live session of user u has been
\* registered, and only when a session of u is registered whose cleanup has
\* not run yet.
C32_IsConnectedReflectsLive ==
    \A u \in Users :
        /\ (\E s \in Conns : SessionLive(s) /\ user[s] = u)
               => IsConnected(userSessions, u)
        /\ IsConnected(userSessions, u)
               => \E s \in Conns : pc[s] = "watching" /\ user[s] = u

\* C33: once the context is cancelled Start returns nil only; no handler
\* goroutine is started for a connection that Accept returned after the
\* cancellation; and a connection that waits for a semaphore slot with none
\* free while the context is cancelled is closed without being handled.
C33_NoHandlerAfterCancel ==
    [][ /\ (srvCtxDone /\ startRet = Nil /\ startRet' # Nil) => startRet' = NoError
        /\ \A c \in Conns :
             (pc[c] = "listening" /\ pc'[c] = "yamux") => ~(accepted = c /\ acceptedLate)
        /\ (lpc = "sem" /\ srvCtxDone /\ connSem >= maxConnections /\ lpc' # "sem")
              => pc'[accepted] = "refused"
      ]_vars

\* The connections whose handleConnection goroutine has started and has not
\* returned.
RunningHandlers == {c \in Conns : pc[c] \in HandlerStates}

ConnectedThenEnded(err) ==
    \/ err.kind = "nil"
    \/ err = [kind |-> "error", msg |-> <<"session ended">>]

MaxAttemptsExceeded == [kind |-> "error", msg |-> <<"max reconnection attempts exceeded">>]

\* C35: StartWithReconnect returns "max reconnection attempts exceeded" only
\* with MaxAttempts = m > 0 and after m attempts were counted, and a
\* connection that succeeded resets the attempt counter when it ends.
C35_MaxAttemptsBound ==
    /\ [](retErr = MaxAttemptsExceeded =>
             /\ cfg.MaxAttempts > 0
             /\ attempt = cfg.MaxAttempts + 1)
    /\ [](cfg.MaxAttempts > 0 => attempt <= cfg.MaxAttempts + 1)
    /\ [][(starts' = starts + 1 /\ ConnectedThenEnded(startErr')) => attempt' = 0]_vars

\* The events a subscriber has been sent and not lost: those it received
\* followed by those still queued in its channel.
Delivered(ch) == received[ch] \o chBuf[ch]

\* C36: no event is sent on a closed subscriber channel and no subscriber
\* channel is closed twice, whatever the order of the calls.
C36_NoChannelFault == busFault = {}

\* C36 witness: a channel that had been sent an event was unsubscribed
\* twice, the second or a later Unsubscribe coming after Close.
C36_Witness ==
    \E ch \in Chans :
        /\ Delivered(ch) # <<>>
        /\ unsubCalls[ch] >= 2
        /\ busClosed
        /\ "Unsubscribe" \in lateCalls
        /\ busFault = {}

\* C37: a Publish call in its loop can always take its next step; its send
\* queues the event when the channel's buffer has room and changes nothing
\* when the buffer is full; and what a subscriber is sent by one publisher
\* comes in the order of that publisher's publications, none of them twice.
C37_PublishDelivery ==
    /\ [](\A p \in Publishers :
             bpc[p] = "send" => ENABLED (PublishSend(p) \/ PublishEnd(p)))
    /\ [][\A p \in Publishers :
             (bpc[p] = "send" /\ pidx'[p] = pidx[p] + 1) =>
                 LET ch == psubs[p][pidx[p]]
                 IN  /\ chBuf'[ch] = IF Len(chBuf[ch]) < bufferSize
                                     THEN Append(chBuf[ch], <<p, pubCount[p]>>)
                                     ELSE chBuf[ch]
                     /\ \A other \in Chans \ {ch} : chBuf'[other] = chBuf[other]]_vars
    /\ [](\A ch \in Chans :
             \A i \in 1..Len(Delivered(ch)), j \in 1..Len(Delivered(ch)) :
                 (i < j /\ Delivered(ch)[i][1] = Delivered(ch)[j][1])
                     => Delivered(ch)[i][2] < Delivered(ch)[j][2])

\* C37 witness: a subscriber was sent one publication of a publisher and a
\* later one, and a publication between the two was dropped at its full
\* buffer.
C37_Witness ==
    \E ch \in Chans, p \in Publishers :
        \E i \in 1..Len(Delivered(ch)), j \in 1..Len(Delivered(ch)) :
            /\ i < j
            /\ Delivered(ch)[i][1] = p
            /\ Delivered(ch)[j][1] = p
            /\ \E n \in 1..pubCount[p] :
                  /\ Delivered(ch)[i][2] < n
                  /\ n < Delivered(ch)[j][2]
                  /\ \A k \in 1..Len(Delivered(ch)) : Delivered(ch)[k] # <<p, n>>

\* C38: once the bus is closed it stays closed, its list is empty
\* (SubscriberCount is 0), every channel Subscribe ever returned is closed,
\* no Publish is in its loop, and no later call queues an event, changes
\* the list or panics.
C38_AfterClose ==
    /\ [](busClosed =>
             /\ Len(subscribers) = 0
             /\ chMade \subseteq chClosed
             /\ \A p \in Publishers : bpc[p] = "idle")
    /\ [][busClosed =>
             /\ busClosed'
             /\ subscribers' = subscribers
             /\ busFault' = busFault
             /\ \A ch \in Chans : Len(chBuf'[ch]) <= Len(chBuf[ch])]_vars

\* C38 witness: on a bus closed with a subscriber, Close, Subscribe and
\* Publish were each called again after the Close.
C38_Witness ==
    /\ busClosed
    /\ closeCalls >= 2
    /\ Cardinality(chMade) >= 2
    /\ {"Close", "Subscribe", "Publish"} \subseteq lateCalls
    /\ busFault = {}

\* The running processes whose AcquireLock returned nil and whose
\* ReleaseLock has not returned.
LockHolders == {p \in Procs : lkpc[p] \in {"held", "release"}}

\* C39: at most one running process holds the lock; AcquireLock returns
\* ErrAlreadyRunning only when the recorded holder is running and takes a
\* stale lock over; ReleaseLock removes only a lock file that records the
\* caller's PID.
C39_SingleInstance ==
    /\ [](Cardinality(LockHolders) <= 1)
    /\ [][\A p \in Procs :
            /\ (lkpc[p] = "check" /\ lkpc'[p] = "refused") => isProcessRunning(lkInfo[p])
            /\ (lkpc[p] = "check" /\ ~isProcessRunning(lkInfo[p])) => lkpc'[p] # "refused"
            /\ (lkpc[p] = "release" /\ lkpc'[p] = "released" /\ lockFile # NoFile)
                  => lockFile = p]_vars

\* The configured public key is present and decodes to an ed25519 key.
KeyUsable ==
    /\ PublicKeyBase64 # ""
    /\ ~DecodeString(PublicKeyBase64).err
    /\ DecodeString(PublicKeyBase64).size = Ed25519PublicKeySize

\* checksums.sig as served is the configured key's signature over
\* checksums.txt as served.
SignedByConfiguredKey ==
    /\ srvSignature.signer = DecodeString(PublicKeyBase64).owner
    /\ srvSignature.msg = srvChecksums

\* The first line of checksums.txt that names the asset lists the SHA-256
\* of data.
ListedFor(data) ==
    \E i \in 1..Len(srvChecksums) :
        /\ Len(srvChecksums[i]) >= 2
        /\ srvChecksums[i][Len(srvChecksums[i])] = getAssetName(goos)
        /\ srvChecksums[i][1] = Sha256Hex(data)
        /\ \A j \in 1..(i - 1) :
              ~(/\ Len(srvChecksums[j]) >= 2
                /\ srvChecksums[j][Len(srvChecksums[j])] = getAssetName(goos))

\* C40: the executable is replaced, or a replacement staged, only by a
\* binary whose SHA-256 is the one listed for the asset in a checksums.txt
\* signed by the configured, well-formed public key; whenever PerformUpdate
\* returns an error, and always after an unusable key, a failed download, a
\* bad signature or a checksum mismatch, the executable is unchanged and
\* nothing is staged.
C40_VerifiedUpdateOnly ==
    /\ \A data \in Binaries :
          (executable = data \/ staged = data) =>
              /\ KeyUsable
              /\ SignedByConfiguredKey
              /\ ListedFor(data)
    /\ executable \in Binaries \cup {OldBinary}
    /\ staged \in Binaries \cup {NoData}
    /\ (updRet # Nil /\ updRet.err # NoError) => (executable = OldBinary /\ staged = NoData)
    /\ (upc = "done" /\ (~KeyUsable \/ dlFailed \/ ~SignedByConfiguredKey
                           \/ ~ListedFor(srvBinary)))
          => /\ updRet.err # NoError
             /\ executable = OldBinary
             /\ staged = NoData

\* C40 witness: PerformUpdate has installed the binary of a release whose
\* checksums.txt has more than one line.
C40_Witness ==
    /\ upc = "done"
    /\ updRet.err = NoError
    /\ executable = srvBinary
    /\ Len(srvChecksums) >= 2
    /\ parseChecksum(srvChecksums, getAssetName(goos)).hash = Sha256Hex(srvBinary)

====
